---- MODULE Spec2Model ----
(***************************************************************************)
(* A model of the dirschema validator (src/src/dirschema): PathSlice,      *)
(* the evaluation context DSEvalCtx, the recursive evaluator               *)
(* DSValidator.validate_path and the per-path loop DSValidator.validate.   *)
(*                                                                         *)
(* Strings are sequences of one-character strings, so that splitting on    *)
(* slashes, prefix tests and regex group expansion are computed.           *)
(* An optional value (Python None) is the empty sequence <<>>, a present   *)
(* value v is <<v>>.                                                       *)
(***************************************************************************)
EXTENDS Integers, Sequences, FiniteSets, TLC

VARIABLES
    mode,       \* which program the behaviour runs: "validate" or "slice"
    pc,         \* position of the running operation
    schema,     \* DSValidator.schema (a DSRule)
    conv,       \* DSValidator.meta_conv
    tree,       \* the directory the adapter (RealDir) looks at
    handlers,   \* loaded_handlers: the registered validation plugins
    paths,      \* validate(): the list `paths`
    idx,        \* validate(): number of paths of `paths` already validated
    errors,     \* validate(): the dict `errors`, in insertion order
    calls,      \* log of the validate_path invocations made for the last path
    hcalls,     \* log of the plugin handler invocations made for the last path
    psIn,       \* PathSlice program: the inputs (path, start, stop)
    psl,        \* PathSlice program: the PathSlice built by into()
    psOut,      \* PathSlice program: the result of unslice()
    obj,        \* object programs: the MetaConvention, ZipDir or H5Dir object
    ret         \* object programs: the outcome of the last call on obj

vars == <<mode, pc, schema, conv, tree, handlers, paths, idx, errors, calls,
          hcalls, psIn, psl, psOut, obj, ret>>

None == <<>>
Some(v) == <<v>>

(***************************************************************************)
(* Python built-ins used by the code.                                      *)
(***************************************************************************)

\* str.startswith
StartsWith(s, p) ==
    /\ Len(p) <= Len(s)
    /\ SubSeq(s, 1, Len(p)) = p

\* str.endswith
EndsWith(s, p) ==
    /\ Len(p) <= Len(s)
    /\ SubSeq(s, Len(s) - Len(p) + 1, Len(s)) = p

\* the list p is a prefix of the list l
IsPrefix(p, l) == Len(p) <= Len(l) /\ SubSeq(l, 1, Len(p)) = p

\* Truthiness of an Optional[int]: None and 0 are falsy.
TruthyInt(o) == o # None /\ o # Some(0)

\* A slice bound i (an int) clamped to a sequence of length n, as Python does.
PyIdx(i, n) ==
    IF i < 0
        THEN (IF n + i < 0 THEN 0 ELSE n + i)
        ELSE (IF i > n THEN n ELSE i)

\* s[lo:hi] for optional bounds lo, hi.
PySlice(s, lo, hi) ==
    LET n == Len(s)
        l == IF lo = None THEN 0 ELSE PyIdx(lo[1], n)
        h == IF hi = None THEN n ELSE PyIdx(hi[1], n)
    IN  SubSeq(s, l + 1, h)

\* Index of the first "/" of s, or 0.
RECURSIVE FirstSlash(_, _)
FirstSlash(s, i) ==
    IF i > Len(s) THEN 0
    ELSE IF s[i] = "/" THEN i
    ELSE FirstSlash(s, i + 1)

\* str.split("/"): "" gives [""], "a/b" gives ["a", "b"].
RECURSIVE Split(_)
Split(s) ==
    LET k == FirstSlash(s, 1)
    IN  IF k = 0 THEN <<s>>
        ELSE <<SubSeq(s, 1, k - 1)>> \o Split(SubSeq(s, k + 1, Len(s)))

\* "/".join(list)
RECURSIVE Join(_)
Join(l) ==
    IF Len(l) = 0 THEN <<>>
    ELSE IF Len(l) = 1 THEN l[1]
    ELSE l[1] \o <<"/">> \o Join(Tail(l))

\* [x for x in l if x] for a list of optional strings: drops None and "".
RECURSIVE NonEmpty(_)
NonEmpty(l) ==
    IF Len(l) = 0 THEN <<>>
    ELSE IF l[1] = None \/ l[1] = Some(<<>>) THEN NonEmpty(Tail(l))
    ELSE <<l[1][1]>> \o NonEmpty(Tail(l))

(***************************************************************************)
(* Regular expressions.  A pattern is [lit, star]: the literal text lit,   *)
(* followed, when star, by one capture group that matches any text        *)
(* without a line break (the dot matches no line break).  The              *)
(* pattern without lit and with star is the default pattern; the pattern   *)
(* without lit and without star is the empty pattern.  A template          *)
(* (rewrite, description) is a string in which the token BackRef stands    *)
(* for the reference to group 1.                                           *)
(***************************************************************************)

BackRef == "\\1"

Pat(lit, star) == [lit |-> lit, star |-> star]

\* re.Pattern.pattern
PatText(pat) == pat.lit \o (IF pat.star THEN <<"(", ".", "*", ")">> ELSE <<>>)

\* the line break, which the dot of a pattern does not match
LineBreak == "\n"

\* re.Pattern.fullmatch: None, or a match object with its capture groups.
FullMatch(pat, s) ==
    IF pat.star
        THEN IF /\ StartsWith(s, pat.lit)
                /\ \A i \in Len(pat.lit) + 1..Len(s) : s[i] # LineBreak
                THEN Some([groups |-> <<SubSeq(s, Len(pat.lit) + 1, Len(s))>>])
                ELSE None
        ELSE IF s = pat.lit THEN Some([groups |-> <<>>]) ELSE None

\* re.Match.expand: raises re.error on a reference to a group the pattern
\* does not have.
RECURSIVE ExpandStr(_, _)
ExpandStr(m, tpl) ==
    IF Len(tpl) = 0 THEN <<>>
    ELSE IF tpl[1] = BackRef THEN m.groups[1] \o ExpandStr(m, Tail(tpl))
    ELSE <<tpl[1]>> \o ExpandStr(m, Tail(tpl))

Expand(m, tpl) ==
    IF (\E i \in 1..Len(tpl) : tpl[i] = BackRef) /\ Len(m.groups) = 0
        THEN [raised |-> TRUE, str |-> <<>>]
        ELSE [raised |-> FALSE, str |-> ExpandStr(m, tpl)]

(***************************************************************************)
(* PathSlice (core.py).                                                    *)
(***************************************************************************)

\* PathSlice._def_pat
DefPat == Pat(<<>>, TRUE)

\* mutant: stop = 0 is an ordinary slice bound
into_StopZeroBound(path, start, stop) ==
    LET segs == Split(path)
        pref == Join(PySlice(segs, None, IF TruthyInt(start) THEN start ELSE Some(0)))
        inner == Join(PySlice(segs, start, stop))
        suf == Join(IF TruthyInt(stop) THEN PySlice(segs, stop, None) ELSE <<>>)
    IN  [slicePre |-> IF pref # <<>> THEN Some(pref) ELSE None,
         sliceStr |-> inner,
         sliceSuf |-> IF suf # <<>> THEN Some(suf) ELSE None]

\* PathSlice.into
into(path, start, stop) ==
    LET segs == Split(path)
        pref == Join(PySlice(segs, None, IF TruthyInt(start) THEN start ELSE Some(0)))
        inner == Join(PySlice(segs, start, IF stop # Some(0) THEN stop ELSE None))
        suf == Join(IF TruthyInt(stop) THEN PySlice(segs, stop, None) ELSE <<>>)
    IN  [slicePre |-> IF pref # <<>> THEN Some(pref) ELSE None,
         sliceStr |-> inner,
         sliceSuf |-> IF suf # <<>> THEN Some(suf) ELSE None]

\* PathSlice.unslice
unslice(sl) ==
    Join(NonEmpty(<<sl.slicePre, Some(sl.sliceStr), sl.sliceSuf>>))

\* PathSlice.match
PslMatch(sl, pat) ==
    FullMatch(IF pat # None THEN pat[1] ELSE DefPat, sl.sliceStr)

\* PathSlice.rewrite: [res |-> None or the new PathSlice, raised]
PslRewrite(sl, pat, sub) ==
    LET m == PslMatch(sl, pat)
    IN  IF m = None THEN [res |-> None, raised |-> FALSE]
        ELSE IF sub = None THEN [res |-> Some(sl), raised |-> FALSE]
        ELSE LET e == Expand(m[1], sub[1])
             IN  IF e.raised THEN [res |-> None, raised |-> TRUE]
                 ELSE [res |-> Some([sl EXCEPT !.sliceStr = e.str]),
                       raised |-> FALSE]

(***************************************************************************)
(* MetaConvention (core.py).  conv is the record of its four fields.       *)
(***************************************************************************)

\* the root of a POSIX path, as pathlib splits it off: none for a relative
\* path, two separators when the path starts with exactly two of them, one
\* separator otherwise
PathRoot(path) ==
    IF path = <<>> \/ path[1] # "/" THEN <<>>
    ELSE IF Len(path) >= 2 /\ path[2] = "/" /\ (Len(path) = 2 \/ path[3] # "/")
        THEN <<"/", "/">>
    ELSE <<"/">>

\* pathlib.Path(path).parts: the root, when the path is absolute, and the
\* names of the path; the empty names (doubled and trailing separators) and
\* the names "." are dropped, the names ".." are kept
Parts(path) ==
    (IF PathRoot(path) # <<>> THEN <<PathRoot(path)>> ELSE <<>>)
    \o SelectSeq(Split(path), LAMBDA c : c # <<>> /\ c # <<".">>)

\* the parts of Path().joinpath(*args) after the parts acc: an absolute
\* argument replaces everything before it
RECURSIVE JoinParts(_, _)
JoinParts(args, acc) ==
    IF args = <<>> THEN acc
    ELSE JoinParts(Tail(args),
                   IF PathRoot(args[1]) # <<>> THEN Parts(args[1])
                   ELSE acc \o Parts(args[1]))

\* str(Path().joinpath(*parts)): the root, then the names separated by
\* single separators; the empty path is written as a dot
PathJoin(parts) ==
    LET prts == JoinParts(parts, <<>>)
    IN  IF prts = <<>> THEN <<".">>
        ELSE IF prts[1][1] = "/" THEN prts[1] \o Join(Tail(prts))
        ELSE Join(prts)

\* MetaConvention.is_meta
is_meta(mc, path) ==
    LET prts == Parts(path)
        n == Len(prts)
        pieces == (IF mc.pathPrefix # <<>> THEN 1 ELSE 0)
                  + (IF mc.pathSuffix # <<>> THEN 1 ELSE 0)
    IN  IF n = 0 THEN FALSE
        ELSE IF mc.filePrefix # <<>> /\ ~StartsWith(prts[n], mc.filePrefix) THEN FALSE
        ELSE IF mc.fileSuffix # <<>> /\ ~EndsWith(prts[n], mc.fileSuffix) THEN FALSE
        ELSE IF n < 1 + pieces THEN FALSE
        ELSE /\ (mc.pathPrefix = <<>> \/ prts[1] = mc.pathPrefix)
             /\ (mc.pathSuffix = <<>> \/ prts[n - 1] = mc.pathSuffix)

\* MetaConvention.meta_for
meta_for(mc, path, is_dir) ==
    LET ps == Parts(path)
        n == Len(ps)
        name == IF n > 0 THEN ps[n] ELSE <<>>
        pre == (IF mc.pathPrefix # <<>> THEN <<mc.pathPrefix>> ELSE <<>>)
               \o SubSeq(ps, 1, n - 1)
        suf == IF mc.pathSuffix # <<>> THEN <<mc.pathSuffix>> ELSE <<>>
    IN  IF is_dir
            THEN PathJoin(pre \o <<name>> \o suf \o <<mc.filePrefix \o mc.fileSuffix>>)
            ELSE PathJoin(pre \o suf \o <<mc.filePrefix \o name \o mc.fileSuffix>>)

(***************************************************************************)
(* The adapter (adapters.py, RealDir).  tree is the file system as the     *)
(* adapter sees it: [files, dirs, content] are the paths below the base    *)
(* directory that are regular files, those that are directories (the base  *)
(* directory itself, the empty path, is one), and the content of every     *)
(* file: the token "notjson", or the name of a JSON document.  base is the *)
(* list of the names from the root of the file system to the base          *)
(* directory, and outer holds the entries of the file system that are not  *)
(* below the base directory, by their paths from the root: [dirs, content].*)
(***************************************************************************)

\* ASCII code of the characters paths are made of (sort order of get_paths)
Ord(c) ==
    CASE c = LineBreak -> 10
      [] c = "-" -> 45
      [] c = "." -> 46
      [] c = "/" -> 47
      [] c = "@" -> 64
      [] c = "_" -> 95
      [] c = "a" -> 97
      [] c = "b" -> 98
      [] c = "d" -> 100
      [] c = "f" -> 102
      [] c = "m" -> 109
      [] c = "q" -> 113
      [] c = "x" -> 120
      [] OTHER -> 122

\* Python's s < t on strings
RECURSIVE StrLess(_, _)
StrLess(s, t) ==
    IF Len(t) = 0 THEN FALSE
    ELSE IF Len(s) = 0 THEN TRUE
    ELSE IF s[1] = t[1] THEN StrLess(Tail(s), Tail(t))
    ELSE Ord(s[1]) < Ord(t[1])

\* Python's l < m on lists of strings (pathlib compares paths by their parts)
RECURSIVE PartsLess(_, _)
PartsLess(l, m) ==
    IF Len(m) = 0 THEN FALSE
    ELSE IF Len(l) = 0 THEN TRUE
    ELSE IF l[1] = m[1] THEN PartsLess(Tail(l), Tail(m))
    ELSE StrLess(l[1], m[1])

\* sorted(...) of a set of paths
RECURSIVE SortedPaths(_)
SortedPaths(S) ==
    IF S = {} THEN <<>>
    ELSE LET least == CHOOSE p \in S :
                        \A q \in S \ {p} : PartsLess(Parts(p), Parts(q))
         IN  <<least>> \o SortedPaths(S \ {least})

\* RealDir.get_paths
get_paths(t) == <<<<>>>> \o SortedPaths((t.files \cup t.dirs) \ {<<>>})

\* what the file system holds at the place at, a list of names from its
\* root: "dir", "file" or "missing"; the directories above the base
\* directory exist
FsKind(t, at) ==
    IF IsPrefix(t.base, at)
        THEN (IF Join(SubSeq(at, Len(t.base) + 1, Len(at))) \in t.dirs
                THEN "dir"
              ELSE IF Join(SubSeq(at, Len(t.base) + 1, Len(at))) \in t.files
                THEN "file"
              ELSE "missing")
    ELSE IF IsPrefix(at, t.base) \/ Join(at) \in t.outer.dirs THEN "dir"
    ELSE IF Join(at) \in DOMAIN t.outer.content THEN "file"
    ELSE "missing"

\* the file system entry reached from the entry cur by the names comps:
\* [kind, at] with kind "dir" or "file" for the directory or file at the
\* place at, "missing" when a name does not exist (ENOENT) and "notdir"
\* when a name lies below a regular file (ENOTDIR); the parent of the root
\* is the root
RECURSIVE Walk(_, _, _)
Walk(t, cur, comps) ==
    IF comps = <<>> THEN cur
    ELSE IF cur.kind \in {"missing", "notdir"} THEN cur
    ELSE IF cur.kind = "file" THEN [kind |-> "notdir", at |-> cur.at]
    ELSE IF comps[1] = <<".", ".">>
        THEN Walk(t, [kind |-> "dir",
                      at |-> IF cur.at = <<>> THEN <<>>
                             ELSE SubSeq(cur.at, 1, Len(cur.at) - 1)],
                  Tail(comps))
    ELSE Walk(t, [kind |-> FsKind(t, Append(cur.at, comps[1])),
                  at |-> Append(cur.at, comps[1])],
              Tail(comps))

\* the entry that self.base / path denotes: a relative path starts at the
\* base directory, an absolute path replaces it and starts at the root of
\* the file system
FsEntry(t, path) ==
    IF PathRoot(path) # <<>>
        THEN Walk(t, [kind |-> "dir", at |-> <<>>], Tail(Parts(path)))
        ELSE Walk(t, [kind |-> "dir", at |-> t.base], Parts(path))

\* RealDir.is_file
is_file(t, path) == FsEntry(t, path).kind = "file"

\* RealDir.is_dir
is_dir(t, path) == FsEntry(t, path).kind = "dir"

\* RealDir.open_file: [raised, res]; res is None (FileNotFoundError,
\* IsADirectoryError) or the byte stream of the file, which may lie below
\* the base directory or outside of it; NotADirectoryError, for a path
\* below a regular file, is not caught
open_file(t, path) ==
    LET at == FsEntry(t, path).at
    IN  [raised |-> FsEntry(t, path).kind = "notdir",
         res |-> IF FsEntry(t, path).kind # "file" THEN None
                 ELSE IF IsPrefix(t.base, at)
                   THEN Some([kind |-> "stream",
                              tok |-> t.content[Join(SubSeq(at, Len(t.base) + 1,
                                                            Len(at)))]])
                 ELSE Some([kind |-> "stream",
                            tok |-> t.outer.content[Join(at)]])]

\* IDirectory.decode_json: [raised, res]; res is None for a text that is
\* not JSON (json.JSONDecodeError is caught, and YAML finds the stream at
\* its end), or the decoded JSON value; for bytes that are not UTF-8 text,
\* the content "binary", json.load raises UnicodeDecodeError, which is not
\* caught
decode_json(dat, path) ==
    [raised |-> dat.tok = "binary",
     res |-> IF dat.tok \in {"notjson", "binary"} THEN None
             ELSE Some([kind |-> "json", tok |-> dat.tok])]

(***************************************************************************)
(* Rules (core.py, Rule and DSRule).  A DSRule is a record with every      *)
(* field of Rule, plus isBool/bval for the trivial boolean rules.          *)
(* type is None or one of the TypeEnum names; valid/validMeta are None,    *)
(* [kind |-> "schema", name] for an embedded JSON Schema or                *)
(* [kind |-> "plugin", name, args] for a plugin reference.                 *)
(***************************************************************************)

\* Rule with every field at its default
R0 ==
    [isBool |-> FALSE, bval |-> FALSE,
     type |-> None, valid |-> None, validMeta |-> None,
     allOf |-> <<>>, anyOf |-> <<>>, oneOf |-> <<>>,
     not_ |-> None, if_ |-> None, then |-> None, else_ |-> None,
     match |-> None, matchStart |-> None, matchStop |-> None,
     rewrite |-> None, next |-> None,
     description |-> None, details |-> TRUE]

\* DSRule(__root__ = b)
BoolRule(b) == [R0 EXCEPT !.isBool = TRUE, !.bval = b]

\* TypeEnum.is_satisfied
is_satisfied(t, isf, isd) ==
    IF t = "MISSING" /\ (isf \/ isd) THEN FALSE
    ELSE IF t = "ANY" /\ ~(isf \/ isd) THEN FALSE
    ELSE IF t = "DIR" /\ ~isd THEN FALSE
    ELSE IF t = "FILE" /\ ~isf THEN FALSE
    ELSE TRUE

(***************************************************************************)
(* Error records.  err is the message: its text, the string it quotes      *)
(* (a path, a pattern, the expanded description), the two counts of the    *)
(* combinator messages and, for valid/validMeta, the JSON validation       *)
(* errors (a sequence of [ptr, msgs]).                                     *)
(***************************************************************************)

Err(msg, arg) == [msg |-> msg, arg |-> arg, n |-> 0, sat |-> 0, json |-> <<>>]

CountErr(msg, n, sat) ==
    [msg |-> msg, arg |-> <<>>, n |-> n, sat |-> sat, json |-> <<>>]

JsonErr(verrs) ==
    [msg |-> "json", arg |-> <<>>, n |-> 0, sat |-> 0, json |-> verrs]

\* dict[key] = val on a dict kept as the sequence of its items
RECURSIVE DictSet(_, _, _)
DictSet(d, key, val) ==
    IF Len(d) = 0 THEN <<[loc |-> key, e |-> val]>>
    ELSE IF d[1].loc = key THEN <<[loc |-> key, e |-> val]>> \o Tail(d)
    ELSE <<d[1]>> \o DictSet(Tail(d), key, val)

\* dict.update(other)
RECURSIVE DictUpdate(_, _)
DictUpdate(d, other) ==
    IF Len(other) = 0 THEN d
    ELSE DictUpdate(DictSet(d, other[1].loc, other[1].e), Tail(other))

Keys(d) == {d[i].loc : i \in 1..Len(d)}

(***************************************************************************)
(* DSEvalCtx (validate.py).                                                *)
(***************************************************************************)

\* DSEvalCtx.descend: the copy of self (with its failed flag) without the
\* errors; as in the code, a truthy matchStop of the rule is assigned to
\* matchStart, after the matchStart of the rule
descend(self, rule, filepath, reachedVia) ==
    [self EXCEPT
        !.errors = <<>>,
        !.written = <<>>,
        !.matchStart =
            IF ~rule.isBool /\ TruthyInt(rule.matchStop) THEN rule.matchStop[1]
            ELSE IF ~rule.isBool /\ TruthyInt(rule.matchStart)
                THEN rule.matchStart[1]
            ELSE @,
        !.matchPat = IF ~rule.isBool /\ rule.match # None THEN rule.match ELSE @,
        !.filePath = IF filepath # None THEN filepath[1] ELSE @,
        !.location = IF reachedVia # None THEN Append(@, reachedVia[1]) ELSE @]

\* DSEvalCtx(**kwargs): the defaults of the class and the passed fields;
\* written is the history of the keys that were assigned in the dict
\* errors, in the order of the assignments
NewCtx(adapter, mc, p) ==
    [dirAdapter |-> adapter, metaConvention |-> mc,
     errors |-> <<>>, failed |-> FALSE, filePath |-> p, location |-> <<>>,
     matchStart |-> 0, matchStop |-> 0, matchPat |-> None, written |-> <<>>]

\* DSEvalCtx.fresh
fresh(rule, adapter, mc, p) == descend(NewCtx(adapter, mc, p), rule, None, None)

\* DSEvalCtx.add_error
CtxAddError(self, err, child, path) ==
    LET loc == IF child = None THEN self.location
               ELSE Append(self.location, child[1])
        fp == IF path # None /\ path # Some(<<>>) THEN path[1] ELSE self.filePath
    IN  [self EXCEPT !.errors = DictSet(self.errors, loc, [path |-> fp, err |-> err]),
                     !.written = Append(@, loc)]

\* DSEvalCtx.add_errors with one dict
CtxAddErrors(self, errDict) ==
    [self EXCEPT !.errors = DictUpdate(self.errors, errDict),
                 !.written = @ \o [i \in 1..Len(errDict) |-> errDict[i].loc]]

\* DSEvalCtx.add_errors(*err_dicts)
RECURSIVE CtxAddErrorsAll(_, _)
CtxAddErrorsAll(self, errDicts) ==
    IF Len(errDicts) = 0 THEN self
    ELSE CtxAddErrorsAll(CtxAddErrors(self, errDicts[1]), Tail(errDicts))

(***************************************************************************)
(* JSON validation and plugin dispatch (json/validate.py, json/handler.py).*)
(* handlers maps the name of every registered plugin to [cls, implJson,    *)
(* implRaw, rejects]: the handler class, whether it overrides              *)
(* validate_json, whether it overrides validate_raw, and the data values   *)
(* for which the plugin reports errors.  The class ValidationHandler       *)
(* itself, which overrides neither, can be registered as a plugin.         *)
(***************************************************************************)

\* "/".join(map(str, lst)), as the sequence of the steps and the separators
RECURSIVE JoinSteps(_)
JoinSteps(lst) ==
    IF Len(lst) <= 1 THEN lst
    ELSE <<lst[1], "/">> \o JoinSteps(Tail(lst))

\* Draft202012Validator(schema).iter_errors(dat), sorted by the path of the
\* violation in the document, for the schemas true, false,
\* reqAuthor = {type: object, required: [author]} and
\* strAuthor = {required: [author],
\*              properties: {author: {type: string, enum: [...]}}},
\* and the documents author = {author: "Jane Doe"}, authorNum = {author: 1},
\* empty = {}; the steps of a path are written as str() writes them
iter_errors(dat, name) ==
    IF name = "true" THEN <<>>
    ELSE IF name = "false"
        THEN <<[path |-> <<>>, message |-> "False schema does not allow"]>>
    ELSE IF dat.tok = "author" THEN <<>>
    ELSE IF dat.tok = "authorNum"
        THEN (IF name = "strAuthor"
                THEN <<[path |-> <<<<"a", "u", "t", "h", "o", "r">>>>,
                        message |-> "1 is not of type 'string'"],
                       [path |-> <<<<"a", "u", "t", "h", "o", "r">>>>,
                        message |-> "1 is not one of the names"]>>
                ELSE <<>>)
    ELSE <<[path |-> <<>>, message |-> "'author' is a required property"]>>

\* mutant: a violation at the root of the document is keyed by the empty
\* string
ErrorKey_RootEmpty(path) ==
    IF path = <<>> THEN <<>> ELSE <<"/">> \o Join(path)

\* key = "/" + "/".join(map(str, verr.path)): one string, in which a
\* separator that is part of a step reads as one that joins two steps
ErrorKey(path) == <<"/">> \o Join(path)

\* errs[key].append(verr.message), with errs[key] = [] for a new key
RECURSIVE AppendMessage(_, _, _)
AppendMessage(errs, key, message) ==
    IF errs = <<>> THEN <<[ptr |-> key, msgs |-> <<message>>]>>
    ELSE IF errs[1].ptr = key
        THEN <<[errs[1] EXCEPT !.msgs = Append(@, message)]>> \o Tail(errs)
    ELSE <<errs[1]>> \o AppendMessage(Tail(errs), key, message)

\* the loop of validate_jsonschema over the violations verrs
RECURSIVE GroupErrors(_, _)
GroupErrors(verrs, errs) ==
    IF verrs = <<>> THEN errs
    ELSE GroupErrors(Tail(verrs),
            AppendMessage(errs, ErrorKey(verrs[1].path), verrs[1].message))

\* validate_jsonschema: the violations grouped by their location
validate_jsonschema(dat, name) == GroupErrors(iter_errors(dat, name), <<>>)

\* ValidationHandler._for_json:
\* type(self).validate_json != ValidationHandler.validate_json compares two
\* bound class methods, which are equal only if they are bound to the same
\* class and wrap the same function
ForJson(h) == ~(h.cls = "ValidationHandler" /\ ~h.implJson)

\* resolve_validator: [raised, isHandler, name, args]; a plugin reference
\* v#name://args raises ValueError (plugin_from_uri) when it is not split
\* into an entry point and its arguments, the entry point being empty or
\* the arguments holding the separator :// again, and when the entry
\* point is not registered
resolve_validator(hs, ref) ==
    IF ref.kind = "schema"
        THEN [raised |-> FALSE, isHandler |-> FALSE, name |-> ref.name, args |-> ref.args]
        ELSE [raised |-> \/ ref.name = ""
                         \/ \E i \in 1..Len(ref.args) - 2 :
                                SubSeq(ref.args, i, i + 2) = <<":", "/", "/">>
                         \/ ref.name \notin DOMAIN hs,
              isHandler |-> TRUE, name |-> ref.name, args |-> ref.args]

\* the check `parse_json` of validate_path
ParseJson(hs, val) == ~val.isHandler \/ ~ForJson(hs[val.name])

\* ValidationHandler.validate: the method it dispatches to
HandlerMethod(h) == IF ForJson(h) THEN "validate_json" ELSE "validate_raw"

\* the method of the handler class is the one of ValidationHandler, which
\* raises NotImplementedError
Inherited(h, method) ==
    IF method = "validate_json" THEN ~h.implJson ELSE ~h.implRaw

\* validate_metadata: [raised, errs, hc]: the JSON validation errors, and
\* the plugin invocation made (none for a JSON Schema)
validate_metadata(hs, dat, val) ==
    IF val.isHandler
        THEN [raised |-> Inherited(hs[val.name], HandlerMethod(hs[val.name])),
              errs |-> IF dat \in hs[val.name].rejects
                            /\ ~Inherited(hs[val.name], HandlerMethod(hs[val.name]))
                          THEN <<[ptr |-> <<"/">>, msgs |-> <<"rejected by plugin">>]>>
                          ELSE <<>>,
              hc |-> <<[name |-> val.name, method |-> HandlerMethod(hs[val.name]),
                        args |-> val.args, data |-> dat]>>]
        ELSE [raised |-> FALSE, errs |-> validate_jsonschema(dat, val.name),
              hc |-> <<>>]

(***************************************************************************)
(* The evaluator (validate.py, DSValidator.validate_path).                 *)
(*                                                                         *)
(* One invocation threads a record S = [ctx, raised, log, hc, fails]: the  *)
(* context curCtx as mutated so far, whether an exception is propagating,  *)
(* the log of the nested invocations, the plugin invocations, and the      *)
(* keywords of this rule that have failed so far.  The result of an        *)
(* invocation is [ok, ctx, raised, log, hc]; log starts with the entry of  *)
(* the invocation itself, followed by the entries of the nested ones in    *)
(* the order in which they were made.                                      *)
(***************************************************************************)

\* truthiness of an Optional[str]
TruthyStr(o) == o # None /\ o # Some(<<>>)

Merge(S, r) ==
    [S EXCEPT !.log = @ \o r.log, !.hc = @ \o r.hc, !.raised = r.raised]

\* the closure add_error of validate_path, its branch with a non-empty
\* description and no earlier failure: m is psl.match(curCtx.matchPat), and
\* the call of expand on it raises when m is None
DescribedError(S, rl, m) ==
    IF m = None \/ Expand(m[1], rl.description[1]).raised
        THEN [S EXCEPT !.raised = TRUE]
        ELSE [S EXCEPT
                !.ctx = [CtxAddError(@, Err("description",
                                            Expand(m[1], rl.description[1]).str),
                                     None, None)
                            EXCEPT !.failed = TRUE]]

\* mutant: the description is added at every failure of the rule
LocalAddError_Repeated(S, rl, sl, err, child, path) ==
    IF rl.description = None
        THEN [S EXCEPT !.ctx = [CtxAddError(@, err, child, path)
                                    EXCEPT !.failed = TRUE]]
    ELSE IF rl.description # Some(<<>>)
        THEN DescribedError(S, rl, PslMatch(sl, S.ctx.matchPat))
    ELSE [S EXCEPT !.ctx.failed = TRUE]

\* the closure add_error of validate_path: with a description, the
\* description is expanded against the match of the slice and added once
LocalAddError(S, rl, sl, err, child, path) ==
    IF rl.description = None
        THEN [S EXCEPT !.ctx = [CtxAddError(@, err, child, path)
                                    EXCEPT !.failed = TRUE]]
    ELSE IF rl.description # Some(<<>>) /\ ~S.ctx.failed
        THEN DescribedError(S, rl, PslMatch(sl, S.ctx.matchPat))
    ELSE [S EXCEPT !.ctx.failed = TRUE]

\* add_error(...) for the failed keyword key
AddErr(S, rl, sl, err, key, path) ==
    [LocalAddError(S, rl, sl, err, Some(key), path)
        EXCEPT !.fails = Append(@, key)]

\* 1. the error of a failed match / rewrite
MatchError(rl, ctx) ==
    IF TruthyStr(rl.description)
        THEN Err("description", rl.description[1])
        ELSE Err("Failed to match",
                 PatText(IF ctx.matchPat # None THEN ctx.matchPat[1] ELSE DefPat)
                 \o (IF TruthyStr(rl.rewrite)
                        THEN <<" ">> \o rl.rewrite[1] ELSE <<>>))

\* 1. match / rewrite, given rw, the result of psl.rewrite:
\* [stop, raised, ctx, nextPath, fails]
MatchResult(path, rl, ctx, rw) ==
    IF rw.raised
        THEN [stop |-> TRUE, raised |-> TRUE, ctx |-> ctx,
              nextPath |-> path, fails |-> <<>>]
    ELSE IF rw.res # None
        THEN [stop |-> FALSE, raised |-> FALSE, ctx |-> ctx,
              nextPath |-> unslice(rw.res[1]), fails |-> <<>>]
    ELSE [stop |-> TRUE, raised |-> FALSE,
          ctx |-> [CtxAddError(ctx, MatchError(rl, ctx),
                               Some(IF TruthyStr(rl.rewrite)
                                        THEN "rewrite" ELSE "match"),
                               None)
                      EXCEPT !.failed = TRUE],
          nextPath |-> path,
          fails |-> <<IF TruthyStr(rl.rewrite) THEN "rewrite" ELSE "match">>]

\* 1. match / rewrite
MatchStage(path, rl, ctx, sl) ==
    IF rl.match # None \/ TruthyStr(rl.rewrite)
        THEN MatchResult(path, rl, ctx, PslRewrite(sl, ctx.matchPat, rl.rewrite))
        ELSE [stop |-> FALSE, raised |-> FALSE, ctx |-> ctx,
              nextPath |-> path, fails |-> <<>>]

TypeMsg(t) ==
    IF t = "ANY" THEN "Entity must exist (type: true)"
    ELSE IF t = "MISSING" THEN "Entity must not exist (type: false)"
    ELSE IF t = "FILE" THEN "Entity does not have expected type: 'file'"
    ELSE "Entity does not have expected type: 'dir'"

\* 2. the type constraint
TypeStage(S, path, rl, sl) ==
    IF rl.type # None
       /\ ~is_satisfied(rl.type[1], is_file(S.ctx.dirAdapter, path),
                        is_dir(S.ctx.dirAdapter, path))
        THEN AddErr(S, rl, sl, Err(TypeMsg(rl.type[1]), <<>>), "type", None)
        ELSE S

\* 2. valid / validMeta, after the file was loaded and decoded as the
\* validator wants it: validate_metadata and its errors
ValidateLoaded(S, rl, sl, key, metapath, res) ==
    IF res.raised THEN [S EXCEPT !.hc = @ \o res.hc, !.raised = TRUE]
    ELSE IF res.errs # <<>>
        THEN AddErr([S EXCEPT !.hc = @ \o res.hc], rl, sl, JsonErr(res.errs),
                    key, Some(metapath))
        ELSE [S EXCEPT !.hc = @ \o res.hc]

\* 2. valid / validMeta, after the validator val was resolved: parsed is
\* the data as it is passed on, the decoded JSON if parse_json and the
\* stream dat otherwise
ValidateParsed(S, rl, sl, key, metapath, val, parsed) ==
    IF parsed = None
        THEN AddErr(S, rl, sl, Err("File could not be parsed", metapath),
                    key, Some(metapath))
        ELSE ValidateLoaded(S, rl, sl, key, metapath,
                            validate_metadata(handlers, parsed[1], val))

\* 2. valid / validMeta, after the file was opened as dat
ValidateOpened(S, rl, sl, key, metapath, dat, val) ==
    IF dat.raised THEN [S EXCEPT !.raised = TRUE]
    ELSE IF dat.res = None
        THEN AddErr(S, rl, sl, Err("File could not be loaded", metapath),
                    key, Some(metapath))
    ELSE IF val.raised THEN [S EXCEPT !.raised = TRUE]
    ELSE IF ParseJson(handlers, val) /\ decode_json(dat.res[1], metapath).raised
        THEN [S EXCEPT !.raised = TRUE]
    ELSE ValidateParsed(S, rl, sl, key, metapath, val,
                        IF ParseJson(handlers, val)
                            THEN decode_json(dat.res[1], metapath).res
                            ELSE dat.res)

\* 2. valid / validMeta on the file metapath
ValidateFile(S, rl, sl, key, metapath) ==
    ValidateOpened(S, rl, sl, key, metapath,
                   open_file(S.ctx.dirAdapter, metapath),
                   resolve_validator(handlers, rl[key][1]))

\* 2. one round of the loop over ("valid", "validMeta")
ValidStage(S, path, rl, sl, key) ==
    IF S.raised \/ rl[key] = None THEN S
    ELSE IF ~is_file(S.ctx.dirAdapter, path) /\ ~is_dir(S.ctx.dirAdapter, path)
        THEN AddErr(S, rl, sl, Err("Path does not exist", path), key, None)
    ELSE ValidateFile(S, rl, sl, key,
                      IF key = "validMeta"
                        THEN meta_for(S.ctx.metaConvention, path,
                                      is_dir(S.ctx.dirAdapter, path))
                        ELSE path)

\* 2. the primitive constraints: type, valid, validMeta
PrimStage(S, path, rl, sl) ==
    ValidStage(ValidStage(TypeStage(S, path, rl, sl), path, rl, sl, "valid"),
               path, rl, sl, "validMeta")

\* mutant: oneOf is reported only when every sub-rule failed
OpErrMsg_OneOfAtLeast(op, num_fails, num_rules) ==
    IF op = "allOf" /\ num_fails > 0 THEN "All"
    ELSE IF op = "oneOf" /\ num_fails = num_rules THEN "Exactly 1"
    ELSE IF op = "anyOf" /\ num_fails = num_rules THEN "At least 1"
    ELSE ""

\* the choice of err_msg for a combinator: "" when it is satisfied
OpErrMsg(op, num_fails, num_rules) ==
    IF op = "allOf" /\ num_fails > 0 THEN "All"
    ELSE IF op = "oneOf" /\ num_fails # num_rules - 1 THEN "Exactly 1"
    ELSE IF op = "anyOf" /\ num_fails = num_rules THEN "At least 1"
    ELSE ""

\* mutant: oneOf is evaluated before anyOf
OpOrder_OneOfFirst == <<"allOf", "oneOf", "anyOf">>

\* the order in which the logical operators are evaluated
OpOrder == <<"allOf", "anyOf", "oneOf">>

\* the log entry of one invocation
Entry(path, rule, curCtx, sl, ok, S, stage, nextEval, nextPath) ==
    [loc |-> curCtx.location, path |-> path, rule |-> rule,
     inFailed |-> curCtx.failed, ms |-> curCtx.matchStart,
     me |-> curCtx.matchStop, pat |-> curCtx.matchPat, slice |-> sl.sliceStr,
     ok |-> ok, raised |-> S.raised, errors |-> S.ctx.errors,
     written |-> S.ctx.written,
     fails |-> S.fails, stage |-> stage,
     nextEval |-> nextEval, nextPath |-> nextPath]

Result(path, rule, curCtx, sl, ok, S, stage, nextEval, nextPath) ==
    [ok |-> ok, ctx |-> S.ctx, raised |-> S.raised, hc |-> S.hc,
     log |-> <<Entry(path, rule, curCtx, sl, ok, S, stage, nextEval, nextPath)>>
             \o S.log]

RECURSIVE validate_path(_, _, _)
RECURSIVE OpLoop(_, _, _, _, _, _)

\* the trivial bool rule: c is curCtx after the rule `false` has set failed
\* and added its error
BoolResult(path, rule, curCtx, c) ==
    Result(path, rule, curCtx, [sliceStr |-> <<>>], ~c.failed,
           [ctx |-> c, raised |-> FALSE, log |-> <<>>, hc |-> <<>>,
            fails |-> <<>>],
           "bool", FALSE, path)

\* the trivial bool rule
BoolStage(path, rule, curCtx) ==
    BoolResult(path, rule, curCtx,
               IF ~rule.bval
                 THEN CtxAddError([curCtx EXCEPT !.failed = TRUE],
                                  Err("Reached unsatisfiable 'false' rule", <<>>),
                                  None, None)
                 ELSE curCtx)

\* mutant: the errors of the failed branch are merged whatever `details` is
BranchResult_AlwaysMerge(S, rl, key, r) ==
    IF r.raised \/ r.ok THEN Merge(S, r)
    ELSE [Merge(S, r) EXCEPT
            !.ctx = CtxAddErrors([@ EXCEPT !.failed = TRUE], r.ctx.errors),
            !.fails = Append(@, key)]

\* then / else, given r, the result of the branch
BranchResult(S, rl, key, r) ==
    IF r.raised \/ r.ok THEN Merge(S, r)
    ELSE [Merge(S, r) EXCEPT
            !.ctx = IF rl.details
                      THEN CtxAddErrors([@ EXCEPT !.failed = TRUE], r.ctx.errors)
                      ELSE [@ EXCEPT !.failed = TRUE],
            !.fails = Append(@, key)]

\* then / else: evaluate the branch sub on the path
BranchStage(S, path, rl, sub, key) ==
    BranchResult(S, rl, key,
                 validate_path(path, sub, descend(S.ctx, sub, Some(path), Some(key))))

\* if-then-else, given r, the result of the rule `if`
IfResult(S, path, rl, r) ==
    IF r.raised THEN Merge(S, r)
    ELSE IF r.ok
        THEN (IF rl.then # None
                THEN BranchStage(Merge(S, r), path, rl, rl.then[1], "then")
                ELSE Merge(S, r))
    ELSE (IF rl.else_ # None
            THEN BranchStage(Merge(S, r), path, rl, rl.else_[1], "else")
            ELSE Merge(S, r))

\* 3. if-then-else
IfStage(S, path, rl) ==
    IF S.raised \/ rl.if_ = None THEN S
    ELSE IfResult(S, path, rl,
                  validate_path(path, rl.if_[1],
                                descend(S.ctx, rl.if_[1], Some(path), Some("if"))))

\* mutant: the loop also stops at the first sub-rule of allOf that fails
OpLoopBody_AllOfBreak(path, op, val, opCtx, i, acc, r) ==
    IF r.raised THEN Merge(acc, r)
    ELSE IF r.ok /\ op = "anyOf" THEN [Merge(acc, r) EXCEPT !.suberrs = <<>>]
    ELSE IF ~r.ok /\ op = "allOf"
        THEN [Merge(acc, r) EXCEPT
                !.num_fails = @ + 1,
                !.suberrs = IF r.ctx.errors # <<>>
                              THEN Append(@, r.ctx.errors) ELSE @]
    ELSE IF ~r.ok
        THEN OpLoop(path, op, val, opCtx, i + 1,
                [Merge(acc, r) EXCEPT
                    !.num_fails = @ + 1,
                    !.suberrs = IF r.ctx.errors # <<>>
                                  THEN Append(@, r.ctx.errors) ELSE @])
    ELSE OpLoop(path, op, val, opCtx, i + 1, Merge(acc, r))

\* mutant: the loop does not stop at the first sub-rule of anyOf that
\* succeeds
OpLoopBody_NoBreak(path, op, val, opCtx, i, acc, r) ==
    IF r.raised THEN Merge(acc, r)
    ELSE IF ~r.ok
        THEN OpLoop(path, op, val, opCtx, i + 1,
                [Merge(acc, r) EXCEPT
                    !.num_fails = @ + 1,
                    !.suberrs = IF r.ctx.errors # <<>>
                                  THEN Append(@, r.ctx.errors) ELSE @])
    ELSE OpLoop(path, op, val, opCtx, i + 1, Merge(acc, r))

\* the body of the loop over the sub-rules of a logical operator, given r,
\* the result of the sub-rule val[i]
OpLoopBody(path, op, val, opCtx, i, acc, r) ==
    IF r.raised THEN Merge(acc, r)
    ELSE IF r.ok /\ op = "anyOf" THEN [Merge(acc, r) EXCEPT !.suberrs = <<>>]
    ELSE IF ~r.ok
        THEN OpLoop(path, op, val, opCtx, i + 1,
                [Merge(acc, r) EXCEPT
                    !.num_fails = @ + 1,
                    !.suberrs = IF r.ctx.errors # <<>>
                                  THEN Append(@, r.ctx.errors) ELSE @])
    ELSE OpLoop(path, op, val, opCtx, i + 1, Merge(acc, r))

\* the loop over the sub-rules val[i..] of a logical operator;
\* acc is [num_fails, suberrs, log, hc, raised]
OpLoop(path, op, val, opCtx, i, acc) ==
    IF i > Len(val) THEN acc
    ELSE OpLoopBody(path, op, val, opCtx, i, acc,
            validate_path(path, val[i],
                descend(opCtx, val[i], None, Some(ToString(i - 1)))))

\* mutant: the errors of the sub-rules are added whatever details says
OpReport_AlwaysMerge(rule, L, S2) ==
    IF S2.raised THEN S2
    ELSE [S2 EXCEPT !.ctx = CtxAddErrorsAll(@, L.suberrs)]

\* the error of the operator op: S2 is the state after add_error(err_msg, op)
OpReport(rule, L, S2) ==
    IF S2.raised \/ ~rule.details THEN S2
    ELSE [S2 EXCEPT !.ctx = CtxAddErrorsAll(@, L.suberrs)]

\* the outcome of the operator op, given L, the result of its loop
OpResult(S, rule, sl, op, L) ==
    IF L.raised \/ OpErrMsg(op, L.num_fails, Len(rule[op])) = "" THEN Merge(S, L)
    ELSE OpReport(rule, L,
            AddErr(Merge(S, L), rule, sl,
                   CountErr(OpErrMsg(op, L.num_fails, Len(rule[op])),
                            Len(rule[op]), Len(rule[op]) - L.num_fails),
                   op, None))

\* 3. one logical operator op of the rule
OpStage(S, path, rule, sl, op) ==
    IF S.raised \/ Len(rule[op]) = 0 THEN S
    ELSE OpResult(S, rule, sl, op,
            OpLoop(path, op, rule[op], descend(S.ctx, rule, None, Some(op)), 1,
                   [num_fails |-> 0, suberrs |-> <<>>, log |-> <<>>,
                    hc |-> <<>>, raised |-> FALSE]))

\* not, given r, the result of the negated rule
NotResult(S, rl, sl, r) ==
    IF r.raised \/ ~r.ok THEN Merge(S, r)
    ELSE AddErr(Merge(S, r), rl, sl,
                Err("Negated sub-rule satisfied, but should have failed", <<>>),
                "not", None)

\* 3. not
NotStage(S, path, rl, sl) ==
    IF S.raised \/ rl.not_ = None THEN S
    ELSE NotResult(S, rl, sl,
            validate_path(path, rl.not_[1],
                          descend(S.ctx, rl.not_[1], Some(path), Some("not"))))

\* 3. the complex constraints
CombStage(S, path, rule, sl) ==
    NotStage(
        OpStage(
            OpStage(
                OpStage(IfStage(S, path, rule), path, rule, sl, OpOrder[1]),
                path, rule, sl, OpOrder[2]),
            path, rule, sl, OpOrder[3]),
        path, rule, sl)

\* 4. the return value after `next`, given r, the result of the rule `next`
NextResult(path, rule, curCtx, sl, m, S3, r) ==
    IF r.raised
        THEN Result(path, rule, curCtx, sl, FALSE, Merge(S3, r), "next", TRUE,
                    m.nextPath)
    ELSE IF ~r.ok
        THEN Result(path, rule, curCtx, sl, FALSE,
                    IF rule.details
                        THEN [Merge(S3, r) EXCEPT
                                !.ctx = CtxAddErrors(@, r.ctx.errors)]
                        ELSE Merge(S3, r),
                    "next", TRUE, m.nextPath)
    ELSE Result(path, rule, curCtx, sl, TRUE, Merge(S3, r), "end", TRUE,
                m.nextPath)

\* 4. `next` on the possibly rewritten path, after the complex constraints
NextStage(path, rule, curCtx, sl, m, S3) ==
    IF S3.raised \/ S3.ctx.failed
        THEN Result(path, rule, curCtx, sl, FALSE, S3, "comb", FALSE, m.nextPath)
    ELSE IF rule.next = None
        THEN Result(path, rule, curCtx, sl, TRUE, S3, "end", FALSE, m.nextPath)
    ELSE NextResult(path, rule, curCtx, sl, m, S3,
            validate_path(m.nextPath, rule.next[1],
                descend(S3.ctx, rule.next[1], Some(m.nextPath), Some("next"))))

\* 3. after the primitive constraints: stop if they failed
AfterPrim(path, rule, curCtx, sl, m, S2) ==
    IF S2.raised \/ S2.ctx.failed
        THEN Result(path, rule, curCtx, sl, FALSE, S2, "prim", FALSE, m.nextPath)
        ELSE NextStage(path, rule, curCtx, sl, m, CombStage(S2, path, rule, sl))

\* the state of the invocation after match / rewrite
MatchState(m) ==
    [ctx |-> m.ctx, raised |-> m.raised, log |-> <<>>, hc |-> <<>>,
     fails |-> m.fails]

\* 2. after match / rewrite: stop if it failed
AfterMatch(path, rule, curCtx, sl, m) ==
    IF m.stop
        THEN Result(path, rule, curCtx, sl, FALSE, MatchState(m), "match", FALSE,
                    m.nextPath)
        ELSE AfterPrim(path, rule, curCtx, sl, m,
                       PrimStage(MatchState(m), path, rule, sl))

\* a non-trivial rule on the slice psl of the path
RuleStage(path, rule, curCtx, sl) ==
    AfterMatch(path, rule, curCtx, sl, MatchStage(path, rule, curCtx, sl))

\* DSValidator.validate_path
validate_path(path, rule, curCtx) ==
    IF rule.isBool THEN BoolStage(path, rule, curCtx)
    ELSE RuleStage(path, rule, curCtx,
                   into(path, Some(curCtx.matchStart), Some(curCtx.matchStop)))

(***************************************************************************)
(* DSValidator.validate (validate.py): the per-path loop.                  *)
(***************************************************************************)

\* mutant: the metadata files are not filtered out
ValidatedPaths_NoFilter(adapter, mc) == get_paths(adapter)

\* [p for p in root_path.get_paths() if not self.meta_conv.is_meta(p)]
ValidatedPaths(adapter, mc) ==
    SelectSeq(get_paths(adapter), LAMBDA p : ~is_meta(mc, p))

\* ctx.errors or {(): "Validation failed (no error log available)."}
ErrorsOrDefault(ctxErrors, p) ==
    IF ctxErrors # <<>> THEN ctxErrors
    ELSE <<[loc |-> <<>>,
            e |-> [path |-> p,
                   err |-> Err("Validation failed (no error log available).",
                               <<>>)]]>>

\* the body of the loop for the path p: the new value of `errors`
LoopBody(errs, p, res) ==
    IF ~res.ok THEN DictSet(errs, p, ErrorsOrDefault(res.ctx.errors, p))
    ELSE errs

\* validate_path(p, self.schema, DSEvalCtx.fresh(...)) of the loop
RunPath(p) == validate_path(p, schema, fresh(schema, tree, conv, p))

\* "/" + "/".join(map(str, lst))
loc_to_jsonpointer(lst) == <<"/">> \o JoinSteps(lst)

\* errors_to_json: file path -> rendered schema location -> error
errors_to_json(errs) ==
    [i \in 1..Len(errs) |->
        [loc |-> errs[i].loc,
         e |-> [j \in 1..Len(errs[i].e) |->
                    [loc |-> loc_to_jsonpointer(errs[i].e[j].loc),
                     e |-> errs[i].e[j].e]]]]

\* validate(): get the adapter's paths and drop the metadata files
Start ==
    /\ mode = "validate"
    /\ pc = "start"
    /\ paths' = ValidatedPaths(tree, conv)
    /\ idx' = 0
    /\ errors' = <<>>
    /\ pc' = "loop"
    /\ UNCHANGED <<obj, ret, mode, schema, conv, tree, handlers, calls, hcalls,
                   psIn, psl, psOut>>

\* validate(): one round of the loop; an exception leaves validate()
Step ==
    /\ mode = "validate"
    /\ pc = "loop"
    /\ idx < Len(paths)
    /\ LET p == paths[idx + 1]
           res == RunPath(p)
       IN  /\ calls' = res.log
           /\ hcalls' = res.hc
           /\ idx' = idx + 1
           /\ IF res.raised
                THEN pc' = "raised" /\ errors' = errors
                ELSE pc' = "loop" /\ errors' = LoopBody(errors, p, res)
    /\ UNCHANGED <<obj, ret, mode, schema, conv, tree, handlers, paths, psIn, psl, psOut>>

\* validate(): return errors
Return ==
    /\ mode = "validate"
    /\ pc = "loop"
    /\ idx = Len(paths)
    /\ pc' = "done"
    /\ UNCHANGED <<obj, ret, mode, schema, conv, tree, handlers, paths, idx, errors,
                   calls, hcalls, psIn, psl, psOut>>

(***************************************************************************)
(* The PathSlice program: into() followed by unslice().                    *)
(***************************************************************************)

SliceInto ==
    /\ mode = "slice"
    /\ pc = "start"
    /\ psl' = into(psIn.path, psIn.start, psIn.stop)
    /\ pc' = "sliced"
    /\ UNCHANGED <<obj, ret, mode, schema, conv, tree, handlers, paths, idx, errors,
                   calls, hcalls, psIn, psOut>>

SliceUnslice ==
    /\ mode = "slice"
    /\ pc = "sliced"
    /\ psOut' = unslice(psl)
    /\ pc' = "done"
    /\ UNCHANGED <<obj, ret, mode, schema, conv, tree, handlers, paths, idx, errors,
                   calls, hcalls, psIn, psl>>

(***************************************************************************)
(* Inputs.  Names of the test tree of tests/test_validate.py are           *)
(* shortened to one character: d for blub, f for foo, x for bar, q for     *)
(* qux.                                                                    *)
(***************************************************************************)

\* bound of the PathSlice program: paths have at most MaxSegs segments
MaxSegs == 3
\* bound of the PathSlice program: slice indices range over -MaxIdx..MaxIdx
MaxIdx == 4
\* bound of the generated combinator lists: at most MaxList sub-rules
MaxList == 2

A_(s) == <<"a", "_">> \o s
B_(s) == <<"b", "_">> \o s
In(d, name) == d \o <<"/">> \o name

NameX == <<"x">>
DirD == <<"d">>

\* the patterns a_(.*), b_(.*) and the empty pattern of the tests
PatA == Pat(<<"a", "_">>, TRUE)
PatB == Pat(<<"b", "_">>, TRUE)
PatAny == Pat(<<>>, TRUE)
PatEmpty == Pat(<<>>, FALSE)
\* the rewrites a_\1 and b_\1
RewA == <<"a", "_", BackRef>>
RewB == <<"b", "_", BackRef>>

\* MetaConvention(): the default convention, with fileSuffix _meta.json
\* (shortened to _m)
DefaultConv ==
    [pathPrefix |-> <<>>, pathSuffix |-> <<>>, filePrefix |-> <<>>,
     fileSuffix |-> <<"_", "m">>]

\* a RealDir over the given files (with their content) and directories
MkFs(content, dirs, base, ocontent, odirs) ==
    [files |-> DOMAIN content, dirs |-> dirs \cup {<<>>}, content |-> content,
     base |-> base, outer |-> [dirs |-> odirs, content |-> ocontent]]

\* a base directory b below the root, with nothing beside it
MkTree(content, dirs) == MkFs(content, dirs, <<<<"b">>>>, <<>>, {})

NoHandlers ==
    [n \in {} |-> [cls |-> "", implJson |-> FALSE, implRaw |-> FALSE,
                   rejects |-> {}]]

TypeRule(t) == [R0 EXCEPT !.type = Some(t)]

\* mutex_yaml of tests/test_validate.py
MutexSchema ==
    [R0 EXCEPT
        !.matchStart = Some(-1),
        !.anyOf = <<
            TypeRule("DIR"),
            [R0 EXCEPT !.match = Some(PatA), !.rewrite = Some(RewB),
                       !.next = Some(TypeRule("MISSING"))],
            [R0 EXCEPT !.match = Some(PatB), !.rewrite = Some(RewA),
                       !.next = Some(TypeRule("MISSING"))],
            [R0 EXCEPT !.match = Some(PatAny),
                       !.next = Some([R0 EXCEPT !.anyOf = <<
                            [R0 EXCEPT !.rewrite = Some(RewA),
                                       !.next = Some(TypeRule("FILE"))],
                            [R0 EXCEPT !.rewrite = Some(RewB),
                                       !.next = Some(TypeRule("FILE"))]>>])]>>]

\* the trees of the mutex family: inside the directory d, each of x, a_x,
\* b_x is absent, a file or a directory, and each of a_a_x, b_a_x, a_b_x,
\* b_b_x is absent or a file
MutexNames1 == {NameX, A_(NameX), B_(NameX)}
MutexNames2 == {A_(A_(NameX)), B_(A_(NameX)), A_(B_(NameX)), B_(B_(NameX))}

MutexTree(k1, files2) ==
    MkTree([p \in {In(DirD, n) : n \in {m \in MutexNames1 : k1[m] = "file"}
                                        \cup files2}
                |-> "notjson"],
           {DirD} \cup {In(DirD, n) : n \in {m \in MutexNames1 : k1[m] = "dir"}})

MutexTrees ==
    {MutexTree(k1, f2) : k1 \in [MutexNames1 -> {"none", "file", "dir"}],
                         f2 \in SUBSET MutexNames2}

\* the layouts of test_example_forall_mutex, in the order of the test
TestLayouts ==
    LET base == {DirD, In(DirD, <<"f">>), In(DirD, A_(<<"q">>))}
        F(names) == [p \in {In(DirD, n) : n \in names} |-> "notjson"]
    IN  <<MkTree(F({}), {}),
          MkTree(F({}), {DirD}),
          MkTree(F({}), {DirD, In(DirD, <<"f">>)}),
          MkTree(F({}), base),
          MkTree(F({NameX}), base),
          MkTree(F({NameX}), base \cup {In(DirD, A_(NameX))}),
          MkTree(F({NameX, A_(NameX)}), base),
          MkTree(F({NameX, A_(NameX), B_(NameX)}), base),
          MkTree(F({NameX, B_(NameX)}), base)>>

Scenario(sch, t, mc, hs) ==
    [schema |-> sch, tree |-> t, conv |-> mc, handlers |-> hs]

MutexScenarios ==
    {Scenario(MutexSchema, t, DefaultConv, NoHandlers) :
        t \in MutexTrees \cup {TestLayouts[i] : i \in 1..Len(TestLayouts)}}

\* --- the combinator family: generated rules on a tree with the root, the
\* directory d and the file x

CombTree == MkTree([p \in {NameX} |-> "notjson"], {DirD})

Leaves == {BoolRule(TRUE), BoolRule(FALSE), TypeRule("FILE"), TypeRule("DIR")}

SeqsUpTo(S, n) == UNION {[1..k -> S] : k \in 1..n}

OpRules ==
    {[R0 EXCEPT ![op] = l] :
        op \in {"allOf", "anyOf", "oneOf"}, l \in SeqsUpTo(Leaves, MaxList)}

NotRules == {[R0 EXCEPT !.not_ = Some(l)] : l \in Leaves}

IfRules ==
    LET branch == {None, Some(BoolRule(TRUE)), Some(BoolRule(FALSE)),
                   Some(TypeRule("DIR"))}
    IN  {[R0 EXCEPT !.if_ = Some(i), !.then = t, !.else_ = e] :
            i \in {BoolRule(TRUE), BoolRule(FALSE), TypeRule("FILE")},
            t \in branch, e \in branch}

NextRules ==
    {[R0 EXCEPT !.type = t, !.next = Some(l)] :
        t \in {None, Some("FILE")}, l \in Leaves}

SingleRules == OpRules \cup NotRules \cup IfRules \cup NextRules

DescText == <<"D">>

\* the rule as it is, without details, with a description, with an empty one
Variants(r) ==
    {r, [r EXCEPT !.details = FALSE], [r EXCEPT !.description = Some(DescText)],
     [r EXCEPT !.description = Some(<<>>)]}

\* the rule with one more keyword, evaluated earlier in the node, that fails
PreFail(r) ==
    (IF r.allOf = <<>> THEN {[r EXCEPT !.allOf = <<BoolRule(FALSE)>>]} ELSE {})
    \cup (IF r.if_ = None
            THEN {[r EXCEPT !.if_ = Some(BoolRule(TRUE)),
                            !.then = Some(BoolRule(FALSE))]}
            ELSE {})

\* the rule as a sub-rule of a node
Nested(r) ==
    {[R0 EXCEPT !.anyOf = <<r>>], [R0 EXCEPT !.oneOf = <<r, BoolRule(FALSE)>>],
     [R0 EXCEPT !.not_ = Some(r)], [R0 EXCEPT !.next = Some(r)],
     [R0 EXCEPT !.allOf = <<BoolRule(FALSE)>>, !.anyOf = <<r>>],
     [R0 EXCEPT !.allOf = <<BoolRule(FALSE)>>, !.not_ = Some(r)]}

\* nodes with all the complex keywords, each one passing or failing
OrderRules ==
    LET B == {BoolRule(TRUE), BoolRule(FALSE)}
    IN  {[R0 EXCEPT !.if_ = Some(BoolRule(TRUE)), !.then = Some(t),
                    !.allOf = <<a>>, !.anyOf = <<y>>, !.oneOf = <<o>>,
                    !.not_ = Some(n)] :
            t \in B, a \in B, y \in B, o \in B, n \in B}

CombSchemas ==
    {BoolRule(TRUE), BoolRule(FALSE), R0}
    \cup OrderRules
    \cup UNION {Variants(r) : r \in SingleRules}
    \cup UNION {PreFail(r) : r \in SingleRules}
    \cup UNION {Nested(r) : r \in NotRules \cup NextRules}

\* {anyOf: [{match: "", next: {type: file}}]} on a directory that contains
\* nothing but the root
ExampleRule ==
    [R0 EXCEPT !.anyOf = <<[R0 EXCEPT !.match = Some(Pat(<<>>, FALSE)),
                                     !.next = Some(TypeRule("FILE"))]>>]

EmptyTree == MkTree(<<>>, {})

CombScenarios ==
    {Scenario(sch, CombTree, DefaultConv, NoHandlers) : sch \in CombSchemas}
    \cup {Scenario(ExampleRule, EmptyTree, DefaultConv, NoHandlers)}

\* --- the match family: rules with matchStart, matchStop, match, rewrite and
\* next on a tree with the files a_x, d/a_x, d/b_x

MatchTree ==
    MkTree([p \in {A_(NameX), In(DirD, A_(NameX)), In(DirD, B_(NameX))}
                |-> "notjson"],
           {DirD})

PatD == Pat(DirD, FALSE)

\* {type: file, description: "n\1"}
DescRule ==
    [R0 EXCEPT !.type = Some("FILE"), !.description = Some(<<"n", BackRef>>)]

MatchRules ==
    {[R0 EXCEPT !.matchStart = st, !.matchStop = sp, !.match = m,
                !.rewrite = rw, !.next = nx] :
        st \in {None, Some(1), Some(-1)},
        sp \in {None, Some(0), Some(1), Some(-1)},
        m \in {None, Some(PatA), Some(PatD)},
        rw \in {None, Some(RewB)},
        nx \in {None, Some(TypeRule("FILE")), Some(DescRule)}}

\* rules that rewrite the last segment a_x into b_x and carry if / then /
\* else or not, whose outcome differs between the path and the rewritten one
RewriteRules ==
    LET rw == [R0 EXCEPT !.matchStart = Some(-1), !.match = Some(PatA),
                         !.rewrite = Some(RewB)]
    IN  {[rw EXCEPT !.if_ = Some(BoolRule(b)), !.then = Some(TypeRule(t)),
                    !.else_ = Some(TypeRule(e))] :
            b \in BOOLEAN, t \in {"FILE", "DIR"}, e \in {"FILE", "DIR"}}
        \cup {[rw EXCEPT !.not_ = Some(TypeRule(t))] : t \in {"FILE", "DIR"}}

\* the pattern d(.*)
PatDAny == Pat(DirD, TRUE)

\* rules whose `next` sub-rule sets matchStart or matchStop to 0 below a
\* rule that sets a non-zero index
OverrideRules ==
    {[R0 EXCEPT !.matchStart = st, !.matchStop = sp,
                !.next = Some([R0 EXCEPT !.matchStart = cst, !.matchStop = csp,
                                         !.match = Some(PatDAny)])] :
        st \in {None, Some(1)}, sp \in {None, Some(-1)},
        cst \in {None, Some(0)}, csp \in {None, Some(0)}}

\* rules with a description whose match, rewrite or type fails, or whose
\* allOf fails after the then branch
DescribedRules ==
    LET texts == {Some(DescText), Some(<<>>), Some(<<"n", BackRef>>)}
    IN  {[R0 EXCEPT !.match = Some(PatA), !.rewrite = rw, !.type = t,
                    !.description = ds] :
            rw \in {None, Some(RewB)}, t \in {None, Some("DIR")}, ds \in texts}
        \cup {[R0 EXCEPT !.if_ = Some(BoolRule(TRUE)),
                         !.then = Some(BoolRule(FALSE)),
                         !.allOf = <<BoolRule(FALSE)>>, !.description = ds] :
                ds \in texts}

\* rules that match the whole path with the default pattern, and a tree
\* with the file x and a file whose name ends in a line break
LineRules ==
    {[R0 EXCEPT !.match = m, !.rewrite = rw, !.type = Some("FILE")] :
        m \in {None, Some(PatAny)}, rw \in {None, Some(RewB)}}

LineTree == MkTree([p \in {NameX, <<"q", LineBreak>>} |-> "notjson"], {})

MatchScenarios ==
    {Scenario(sch, MatchTree, DefaultConv, NoHandlers) :
        sch \in MatchRules \cup RewriteRules \cup OverrideRules
                \cup DescribedRules}
    \cup {Scenario(sch, LineTree, DefaultConv, NoHandlers) : sch \in LineRules}

\* --- the metadata family: valid / validMeta with JSON Schemas and plugins,
\* on a tree with the file x, its metadata file x_m and the directory d

MetaTrees ==
    {MkTree([p \in {NameX, NameX \o DefaultConv.fileSuffix}
                |-> IF p = NameX THEN "author" ELSE c],
            {DirD}) :
        c \in {"author", "authorNum", "empty", "notjson", "binary"}}

\* three registered plugins: hj overrides validate_json, hr validate_raw,
\* and base is the class ValidationHandler itself; hj and hr report errors
\* for the document {} in either representation
Plugins ==
    [n \in {"hj", "hr", "base"} |->
        [cls |-> IF n = "base" THEN "ValidationHandler" ELSE n,
         implJson |-> (n = "hj"),
         implRaw |-> (n = "hr"),
         rejects |-> {[kind |-> k, tok |-> "empty"] : k \in {"json", "stream"}}]]

SchemaRef(name) == [kind |-> "schema", name |-> name, args |-> <<>>]
PluginRef(name) == [kind |-> "plugin", name |-> name, args |-> <<"a">>]

Refs ==
    {SchemaRef("true"), SchemaRef("false"), SchemaRef("reqAuthor"),
     SchemaRef("strAuthor"),
     PluginRef("hj"), PluginRef("hr"), PluginRef("base"), PluginRef("nope"),
     [PluginRef("hj") EXCEPT !.args = <<"a", ":", "/", "/", "b">>],
     PluginRef("")}

MetaRules ==
    {TypeRule("DIR"), [TypeRule("DIR") EXCEPT !.description = Some(<<>>)]}
    \cup {[R0 EXCEPT ![key] = Some(ref), !.type = t, !.description = ds] :
            key \in {"valid", "validMeta"}, ref \in Refs,
            t \in {None, Some("FILE")}, ds \in {None, Some(DescText)}}

\* rules with type, valid and validMeta together, on the paths of the tree
\* and, below a rewrite of the whole path into b_..., on paths that do not
\* exist
PrimRules ==
    LET refs == {None, Some(SchemaRef("true")), Some(SchemaRef("reqAuthor"))}
        prim == {[R0 EXCEPT !.type = t, !.valid = v, !.validMeta = vm] :
                    t \in {None, Some("FILE")}, v \in refs, vm \in refs}
    IN  prim \cup {[R0 EXCEPT !.match = Some(PatAny), !.rewrite = Some(RewB),
                              !.next = Some(r)] : r \in prim}
             \cup {[R0 EXCEPT !.type = Some("FILE"),
                              !.valid = Some(SchemaRef("true")),
                              !.validMeta = Some(SchemaRef("true")),
                              !.description = Some(DescText)]}

\* rules that rewrite the path into the same path with a trailing
\* separator, which denotes the same entry of the file system
SlashRules ==
    {[R0 EXCEPT !.match = Some(PatAny), !.rewrite = Some(<<BackRef, "/">>),
                !.next = Some([R0 EXCEPT !.type = t, !.valid = v,
                                         !.validMeta = vm])] :
        t \in {None, Some("FILE"), Some("DIR")},
        v \in {None, Some(SchemaRef("reqAuthor"))},
        vm \in {None, Some(SchemaRef("true"))}}

\* rules that rewrite the path into one that leaves the base directory b:
\* back into it by its own name, to the file a beside it, or by an absolute
\* path
OutsideRules ==
    {[R0 EXCEPT !.match = Some(PatAny), !.rewrite = Some(rw),
                !.next = Some([R0 EXCEPT !.type = t, !.valid = v])] :
        rw \in {<<".", ".", "/", "b", "/", BackRef>>, <<".", ".", "/", "a">>,
                <<"/", "b", "/", BackRef>>},
        t \in {None, Some("FILE"), Some("DIR")},
        v \in {None, Some(SchemaRef("reqAuthor"))}}

\* the base directory b with the file x and the directory d, and the file
\* a beside the base directory
OutsideTree ==
    MkFs([p \in {NameX} |-> "empty"], {DirD}, <<<<"b">>>>,
         [p \in {<<"a">>} |-> "author"], {})

\* a convention that places the metadata files below the path x, which is
\* a regular file in the trees
BelowFileConv == [DefaultConv EXCEPT !.pathPrefix = NameX]

MetaScenarios ==
    {Scenario(sch, t, DefaultConv, Plugins) :
        sch \in MetaRules \cup PrimRules \cup SlashRules, t \in MetaTrees}
    \cup {Scenario([R0 EXCEPT !.validMeta = Some(SchemaRef("true"))], t,
                   BelowFileConv, Plugins) : t \in MetaTrees}
    \cup {Scenario(sch, OutsideTree, DefaultConv, Plugins) :
            sch \in OutsideRules}

Scenarios == CombScenarios \cup MatchScenarios \cup MetaScenarios

Init ==
    /\ mode = "validate"
    /\ pc = "start"
    /\ \E sc \in Scenarios :
        /\ schema = sc.schema
        /\ tree = sc.tree
        /\ conv = sc.conv
        /\ handlers = sc.handlers
    /\ paths = <<>>
    /\ idx = 0
    /\ errors = <<>>
    /\ calls = <<>>
    /\ hcalls = <<>>
    /\ psIn = [path |-> <<>>, start |-> None, stop |-> None]
    /\ psl = into(<<>>, None, None)
    /\ psOut = <<>>
    /\ obj = None
    /\ ret = None

Next == Start \/ Step \/ Return

Spec == Init /\ [][Next]_vars

\* the validator on the mutex schema of the tests, over the mutex trees
InitMutex ==
    /\ mode = "validate"
    /\ pc = "start"
    /\ \E sc \in MutexScenarios :
        /\ schema = sc.schema
        /\ tree = sc.tree
        /\ conv = sc.conv
        /\ handlers = sc.handlers
    /\ paths = <<>>
    /\ idx = 0
    /\ errors = <<>>
    /\ calls = <<>>
    /\ hcalls = <<>>
    /\ psIn = [path |-> <<>>, start |-> None, stop |-> None]
    /\ psl = into(<<>>, None, None)
    /\ psOut = <<>>
    /\ obj = None
    /\ ret = None

SpecMutex == InitMutex /\ [][Next]_vars

\* the PathSlice program over all paths of at most MaxSegs segments and all
\* pairs of optional indices
SegNames == {<<"a">>, <<"b">>}

SlicePaths == {Join(l) : l \in UNION {[1..k -> SegNames] : k \in 0..MaxSegs}}

OptIdx == {None} \cup {Some(i) : i \in -MaxIdx..MaxIdx}

InitSlice ==
    /\ mode = "slice"
    /\ pc = "start"
    /\ psIn \in [path : SlicePaths, start : OptIdx, stop : OptIdx]
    /\ psl = into(<<>>, None, None)
    /\ psOut = <<>>
    /\ obj = None
    /\ ret = None
    /\ schema = R0
    /\ tree = MkTree([p \in {} |-> "notjson"], {})
    /\ conv = DefaultConv
    /\ handlers = NoHandlers
    /\ paths = <<>>
    /\ idx = 0
    /\ errors = <<>>
    /\ calls = <<>>
    /\ hcalls = <<>>

NextSlice == SliceInto \/ SliceUnslice

SpecSlice == InitSlice /\ [][NextSlice]_vars

(***************************************************************************)
(* Properties.                                                             *)
(***************************************************************************)

Range(q) == {q[i] : i \in 1..Len(q)}

Validating == mode = "validate" /\ pc \in {"loop", "done"}

\* the paths validate() has to look at, and those among them that fail
NonMetaPaths == {p \in Range(get_paths(tree)) : ~is_meta(conv, p)}
FailingPaths(S) == {p \in S : ~RunPath(p).ok}

\* C1: validate() returns a map whose keys are exactly the paths of
\* get_paths() that are not metadata files and on which validate_path
\* returns False; no metadata path is a key; the map is empty iff the root
\* rule succeeds on every such path; every key maps to a non-empty error
\* map, which is the entry at the empty location when the failure left no
\* error record.
C1_ValidateResult ==
    Validating =>
        /\ Range(paths) = NonMetaPaths
        /\ Keys(errors) = FailingPaths({paths[i] : i \in 1..idx})
        /\ \A k \in Keys(errors) : ~is_meta(conv, k)
        /\ \A i \in 1..Len(errors) :
            /\ errors[i].e # <<>>
            /\ RunPath(errors[i].loc).ctx.errors = <<>> =>
                    /\ Len(errors[i].e) = 1
                    /\ errors[i].e[1].loc = <<>>
        /\ pc = "done" =>
            /\ Keys(errors) = FailingPaths(NonMetaPaths)
            /\ (errors = <<>>) <=> (\A p \in NonMetaPaths : RunPath(p).ok)

\* C1 witness: validate() has returned a non-empty map for a tree with a
\* metadata file, some path passed, and one failure left no error record
C1_Witness ==
    /\ mode = "validate" /\ pc = "done"
    /\ errors # <<>>
    /\ Len(errors) < Len(paths)
    /\ \E p \in Range(get_paths(tree)) : is_meta(conv, p)
    /\ \E i \in 1..Len(errors) :
        RunPath(errors[i].loc).ctx.errors = <<>> /\ errors[i].e[1].loc = <<>>

\* C2: in every context in which the evaluator invokes it, the rule true
\* returns success and records no error, and the rule false returns failure
\* and records exactly one error, at the location of the context.
C2_BoolRules ==
    \A i \in 1..Len(calls) :
        LET c == calls[i]
        IN  c.rule.isBool =>
                IF c.rule.bval
                    THEN c.ok /\ c.errors = <<>>
                    ELSE ~c.ok /\ Len(c.errors) = 1 /\ c.errors[1].loc = c.loc

\* C3: the context of a rule that sets matchStop = k (k non-zero) has
\* matchStop = k; its matchStart is the inherited one, or the rule's own if
\* it sets one; and the regex is applied to segments[matchStart:k].
C3_MatchStop ==
    \A i \in 1..Len(calls) :
        LET c == calls[i]
            k == c.rule.matchStop[1]
            start == IF TruthyInt(c.rule.matchStart) THEN c.rule.matchStart[1]
                     ELSE 0
        IN  (~c.rule.isBool /\ TruthyInt(c.rule.matchStop)) =>
                /\ c.me = k
                /\ c.loc = <<>> => c.ms = start
                /\ c.slice = Join(PySlice(Split(c.path), Some(c.ms), Some(k)))

\* C4: for every normalized path p and all optional integer indices start
\* and stop, PathSlice.into(p, start, stop).unslice() is p.
C4_UnsliceInverse ==
    (mode = "slice" /\ pc = "done") => psOut = psIn.path


\* the valid / validMeta references of the rule resolve to a validator
Resolvable(rule) ==
    \A key \in {"valid", "validMeta"} :
        rule[key] # None => ~resolve_validator(handlers, rule[key][1]).raised

\* the keywords whose failure is reported through the closure add_error
ConstraintKeys == {"type", "valid", "validMeta", "allOf", "anyOf", "oneOf", "not"}

\* C5: in a rule with a non-empty description, evaluated in a context with
\* no earlier failure, a failed type, valid/validMeta or combinator
\* constraint never raises: validate_path returns False and an error is
\* recorded at the location of the rule, also when the rule is reached
\* through `next` on a rewritten path that the inherited pattern no longer
\* matches.
C5_DescribedFailure ==
    \A i \in 1..Len(calls) :
        LET c == calls[i]
        IN  (/\ ~c.rule.isBool
             /\ TruthyStr(c.rule.description)
             /\ Resolvable(c.rule)
             /\ ~c.inFailed
             /\ c.fails # <<>>
             /\ c.fails[1] \in ConstraintKeys) =>
                /\ ~c.raised
                /\ ~c.ok
                /\ \E j \in 1..Len(c.errors) : c.errors[j].loc = c.loc

\* the target file of the keyword key of the invocation c
MetaTarget(c, key) ==
    IF key = "validMeta" THEN meta_for(conv, c.path, is_dir(tree, c.path))
    ELSE c.path

\* C6: a plugin handler that implements validate_json is invoked with the
\* value decoded by decode_json (and is not invoked, a could-not-be-parsed
\* error being recorded, when decoding fails); a handler that implements
\* only validate_raw is invoked with the byte stream of open_file.
C6_PluginInput ==
    /\ \A i \in 1..Len(hcalls) :
        /\ (hcalls[i].method = "validate_json"
              /\ handlers[hcalls[i].name].implJson)
            => hcalls[i].data.kind = "json"
        /\ (hcalls[i].method = "validate_raw"
              /\ handlers[hcalls[i].name].implRaw)
            => hcalls[i].data.kind = "stream"
    /\ \A i \in 1..Len(calls) : \A key \in {"valid", "validMeta"} :
        LET c == calls[i]
            ref == c.rule[key][1]
            target == MetaTarget(c, key)
            dat == open_file(tree, target).res
        IN  (/\ ~c.rule.isBool
             /\ c.rule[key] # None
             /\ c.rule.type = None
             /\ c.rule.description = None
             /\ ref.kind = "plugin"
             /\ ref.name \in DOMAIN handlers
             /\ ~c.inFailed
             /\ dat # None
             /\ ~decode_json(dat[1], target).raised) =>
                IF handlers[ref.name].implJson
                    THEN IF decode_json(dat[1], target).res = None
                            THEN /\ hcalls = <<>>
                                 /\ \E j \in 1..Len(c.errors) :
                                      /\ c.errors[j].loc = Append(c.loc, key)
                                      /\ c.errors[j].e.err.msg = "File could not be parsed"
                            ELSE \E j \in 1..Len(hcalls) :
                                    hcalls[j].data = decode_json(dat[1], target).res[1]
                    ELSE handlers[ref.name].implRaw =>
                         \E j \in 1..Len(hcalls) :
                            /\ hcalls[j].method = "validate_raw"
                            /\ hcalls[j].data = dat[1]

\* the name of the entry at path p, and the entry of the same directory whose
\* name is the name of p with the prefix pre
LeafName(p) == Split(p)[Len(Split(p))]
Sibling(p, pre) ==
    Join(SubSeq(Split(p), 1, Len(Split(p)) - 1) \o <<pre \o LeafName(p)>>)
Unprefixed(name) ==
    ~StartsWith(name, <<"a", "_">>) /\ ~StartsWith(name, <<"b", "_">>)

\* the files D/X of the tree whose name X starts neither with a_ nor b_
ItemFiles == {p \in tree.files : Unprefixed(LeafName(p))}
HasA(p) == is_file(tree, Sibling(p, <<"a", "_">>))
HasB(p) == is_file(tree, Sibling(p, <<"b", "_">>))

\* C7: with the mutex schema, validation reports at least one error whenever
\* some file D/X whose name is not prefixed by a_ or b_ has neither or both
\* of D/a_X and D/b_X as files, and it reports no error for the layouts of
\* the test in which exactly one of them is a file.
C7_Mutex ==
    (mode = "validate" /\ pc = "done" /\ schema = MutexSchema) =>
        /\ (\E p \in ItemFiles : HasA(p) <=> HasB(p)) => errors # <<>>
        /\ (/\ tree \in Range(TestLayouts)
            /\ ItemFiles # {}
            /\ \A p \in ItemFiles : ~(HasA(p) <=> HasB(p))) => errors = <<>>

\* the invocation made for the sub-rule at location loc, if any
CallsAt(loc) == {j \in 1..Len(calls) : calls[j].loc = loc}

\* the path on which `next` of the invocation c has to be evaluated: the
\* segments before and after the match slice are kept, the slice is
\* replaced by the expansion of the rewrite (kept without a rewrite)
ExpectedNextPath(c) ==
    LET segs == Split(c.path)
        pre == PySlice(segs, None, Some(c.ms))
        suf == IF TruthyInt(Some(c.me)) THEN PySlice(segs, Some(c.me), None)
               ELSE <<>>
        pat == IF c.pat # None THEN c.pat[1] ELSE DefPat
        m == FullMatch(pat, c.slice)
        mid == IF TruthyStr(c.rule.rewrite)
                 THEN Expand(m[1], c.rule.rewrite[1]).str ELSE c.slice
    IN  Join(NonEmpty(<<Some(Join(pre)), Some(mid), Some(Join(suf))>>))

\* C8: the `next` sub-rule of a rule is evaluated iff the match/rewrite, the
\* primitive constraints and the combinators of the rule all passed; it is
\* evaluated on the path in which only the match slice is replaced by the
\* rewrite expansion, and the rule succeeds iff `next` succeeds.
C8_Next ==
    \A i \in 1..Len(calls) :
        LET c == calls[i]
            nx == CallsAt(Append(c.loc, "next"))
        IN  (~c.rule.isBool /\ c.rule.next # None /\ ~c.raised) =>
                /\ c.nextEval <=> c.fails = <<>>
                /\ (nx # {}) <=> c.nextEval
                /\ c.nextEval =>
                    /\ c.nextPath = ExpectedNextPath(c)
                    /\ \A j \in nx : /\ j > i
                                     /\ calls[j].path = c.nextPath
                                     /\ c.ok <=> calls[j].ok
                /\ ~c.nextEval => ~c.ok

\* --- the combinators of an invocation, read from the log

\* the invocation went through the stage of the complex constraints
ReachedOps(c) ==
    ~c.rule.isBool /\ ~c.raised /\ c.stage \in {"comb", "next", "end"}

\* the location of the k-th sub-rule of the operator op of c
SubLoc(c, op, k) == c.loc \o <<op, ToString(k - 1)>>

\* the sub-rules of op that were evaluated, and those that succeeded
Evaluated(c, op) ==
    {k \in 1..Len(c.rule[op]) : CallsAt(SubLoc(c, op, k)) # {}}
SubIdx(c, op, k) == CHOOSE j \in CallsAt(SubLoc(c, op, k)) : TRUE
Succeeded(c, op) == {k \in Evaluated(c, op) : calls[SubIdx(c, op, k)].ok}

\* the errors of c that op produced, and the errors of the branches of op
OpErrors(c, op) == {e \in Range(c.errors) : IsPrefix(Append(c.loc, op), e.loc)}
BranchErrors(c, op) ==
    UNION {Range(calls[SubIdx(c, op, k)].errors) : k \in Evaluated(c, op)}

\* the summary error of op: its message with the two counts
SummaryError(c, op, msg, n, sat) ==
    [loc |-> Append(c.loc, op),
     e |-> [path |-> c.path, err |-> CountErr(msg, n, sat)]]

\* order and short-circuit of anyOf: the sub-rules 1..m were evaluated, in
\* this order, none before the m-th succeeded, and m is the last sub-rule
\* or the first that succeeded
AnyOfOrder(i) ==
    LET c == calls[i]
        N == Len(c.rule.anyOf)
        E == Evaluated(c, "anyOf")
        ok == Succeeded(c, "anyOf")
    IN  /\ \E m \in 1..N : /\ E = 1..m
                           /\ \A k \in 1..(m - 1) : k \notin ok
                           /\ m < N => m \in ok
        /\ \A k \in E : /\ i < SubIdx(c, "anyOf", k)
                        /\ Cardinality(CallsAt(SubLoc(c, "anyOf", k))) = 1
        /\ \A k1, k2 \in E :
            k1 < k2 => SubIdx(c, "anyOf", k1) < SubIdx(c, "anyOf", k2)

\* anyOf with a sub-rule that succeeded contributes no error
AnyOfSuccess(c) ==
    Succeeded(c, "anyOf") # {} =>
        /\ "anyOf" \notin Range(c.fails)
        /\ OpErrors(c, "anyOf") = {}

\* an empty anyOf is a no-op
AnyOfEmpty(c) ==
    /\ "anyOf" \notin Range(c.fails)
    /\ OpErrors(c, "anyOf") = {}
    /\ Evaluated(c, "anyOf") = {}

\* C9 (amended): anyOf evaluates its sub-rules in schema order and stops at
\* the first that succeeds; if one succeeds it contributes no error; if all
\* N fail, in a rule without description, it records the summary error
\* (at least 1 of N, satisfied 0) at the location of the rule + anyOf and,
\* when details is true, the union of the errors of its branches, and
\* nothing else; an empty anyOf is a no-op.
C9_AnyOf ==
    \A i \in 1..Len(calls) :
        LET c == calls[i]
            N == Len(c.rule.anyOf)
        IN  ReachedOps(c) =>
                IF N = 0 THEN AnyOfEmpty(c)
                ELSE /\ AnyOfOrder(i)
                     /\ AnyOfSuccess(c)
                     /\ (Succeeded(c, "anyOf") = {} /\ c.rule.description = None) =>
                            /\ "anyOf" \in Range(c.fails)
                            /\ ~c.ok
                            /\ OpErrors(c, "anyOf") =
                                {SummaryError(c, "anyOf", "At least 1", N, 0)}
                                \cup (IF c.rule.details
                                        THEN BranchErrors(c, "anyOf") ELSE {})

\* C9 (as stated): as above, but if all N sub-rules fail the error set
\* produced by the anyOf equals the union of the errors of its branches.
C9_AnyOfUnion ==
    \A i \in 1..Len(calls) :
        LET c == calls[i]
            N == Len(c.rule.anyOf)
        IN  ReachedOps(c) =>
                IF N = 0 THEN AnyOfEmpty(c)
                ELSE /\ AnyOfOrder(i)
                     /\ AnyOfSuccess(c)
                     /\ Succeeded(c, "anyOf") = {} =>
                            OpErrors(c, "anyOf") = BranchErrors(c, "anyOf")

\* an anyOf of two sub-rules that both fail with errors, in a rule without
\* description that keeps the details
C9_Witness ==
    \E i \in 1..Len(calls) :
        LET c == calls[i]
        IN  /\ ReachedOps(c)
            /\ Len(c.rule.anyOf) = 2
            /\ Evaluated(c, "anyOf") = {1, 2}
            /\ Succeeded(c, "anyOf") = {}
            /\ c.rule.description = None
            /\ c.rule.details
            /\ Cardinality(BranchErrors(c, "anyOf")) = 2
            /\ Cardinality(OpErrors(c, "anyOf")) = 3

\* the invocation has no failure before its oneOf is evaluated
NoEarlierFailure(c) ==
    /\ ~c.inFailed
    /\ \A k \in Range(c.fails) : k \notin {"then", "else", "allOf", "anyOf"}

\* oneOf evaluates every sub-rule and is satisfied iff exactly one succeeds
OneOfCount(c) ==
    LET N == Len(c.rule.oneOf)
        numOk == Cardinality(Succeeded(c, "oneOf"))
    IN  /\ Evaluated(c, "oneOf") = 1..N
        /\ ("oneOf" \notin Range(c.fails)) <=> (numOk = 1)
        /\ numOk = 1 => OpErrors(c, "oneOf") = {}
        /\ numOk # 1 => ~c.ok

\* the error of a oneOf that is not satisfied
OneOfError(c) ==
    SummaryError(c, "oneOf", "Exactly 1", Len(c.rule.oneOf),
                 Cardinality(Succeeded(c, "oneOf")))

\* C10 (amended): in a context with no earlier failure, oneOf is satisfied
\* iff exactly one of its N sub-rules succeeds; with zero or with two or
\* more successes the rule fails and, when the rule has no description, the
\* error recorded at the location of the rule + oneOf carries as its
\* satisfied count the number of sub-rules that succeeded; when the rule
\* has a description nothing is recorded at the location of the rule +
\* oneOf; an empty oneOf succeeds.
C10_OneOf ==
    \A i \in 1..Len(calls) :
        LET c == calls[i]
            N == Len(c.rule.oneOf)
        IN  (ReachedOps(c) /\ NoEarlierFailure(c)) =>
                IF N = 0
                    THEN "oneOf" \notin Range(c.fails) /\ OpErrors(c, "oneOf") = {}
                    ELSE /\ OneOfCount(c)
                         /\ (Cardinality(Succeeded(c, "oneOf")) # 1
                             /\ c.rule.description = None) =>
                                OneOfError(c) \in Range(c.errors)
                         /\ c.rule.description # None =>
                                \A e \in Range(c.errors) :
                                    e.loc # Append(c.loc, "oneOf")

\* C10 (as stated): as above, with the error at the location of the rule +
\* oneOf recorded for every rule whose oneOf is not satisfied.
C10_OneOfRecorded ==
    \A i \in 1..Len(calls) :
        LET c == calls[i]
            N == Len(c.rule.oneOf)
        IN  (ReachedOps(c) /\ NoEarlierFailure(c)) =>
                IF N = 0
                    THEN "oneOf" \notin Range(c.fails) /\ OpErrors(c, "oneOf") = {}
                    ELSE /\ OneOfCount(c)
                         /\ Cardinality(Succeeded(c, "oneOf")) # 1 =>
                                OneOfError(c) \in Range(c.errors)

\* a oneOf of two sub-rules that both succeed, in a rule without description
C10_Witness ==
    \E i \in 1..Len(calls) :
        LET c == calls[i]
        IN  /\ ReachedOps(c)
            /\ NoEarlierFailure(c)
            /\ Len(c.rule.oneOf) = 2
            /\ Succeeded(c, "oneOf") = {1, 2}
            /\ c.rule.description = None
            /\ OneOfError(c) \in Range(c.errors)
            /\ ~c.ok


\* the context of the invocation c as it is without any earlier failure:
\* the location and the match settings of c, no error, failed unset
CleanCtx(c) ==
    [NewCtx(tree, conv, c.path) EXCEPT
        !.location = c.loc, !.matchStart = c.ms, !.matchStop = c.me,
        !.matchPat = c.pat]

\* the k-th sub-rule of the operator op of c succeeds on the path of c
SubRuleOk(c, op, k) ==
    validate_path(c.path, c.rule[op][k],
        descend(descend(CleanCtx(c), c.rule, None, Some(op)), c.rule[op][k],
                None, Some(ToString(k - 1)))).ok

\* the sub-rules of op that succeed on the path of c
Satisfiable(c, op) == {k \in 1..Len(c.rule[op]) : SubRuleOk(c, op, k)}

\* C11: in a rule without description, allOf over N >= 1 sub-rules is
\* satisfied iff every sub-rule succeeds on the path; otherwise the error at
\* the location of the rule + allOf states N and, as satisfied count, the
\* number of sub-rules that succeed on the path, and with details the errors
\* of the evaluated sub-rules are merged in; an empty allOf succeeds.
C11_AllOf ==
    \A i \in 1..Len(calls) :
        LET c == calls[i]
            N == Len(c.rule.allOf)
        IN  (ReachedOps(c) /\ c.rule.description = None) =>
                IF N = 0
                    THEN "allOf" \notin Range(c.fails) /\ OpErrors(c, "allOf") = {}
                    ELSE /\ ("allOf" \notin Range(c.fails)) <=>
                                (Satisfiable(c, "allOf") = 1..N)
                         /\ "allOf" \in Range(c.fails) =>
                                /\ ~c.ok
                                /\ SummaryError(c, "allOf", "All", N,
                                        Cardinality(Satisfiable(c, "allOf")))
                                    \in Range(c.errors)
                                /\ c.rule.details =>
                                    BranchErrors(c, "allOf") \subseteq Range(c.errors)


\* the negated sub-rule of c succeeds on the path of c
NotRuleOk(c) ==
    validate_path(c.path, c.rule.not_[1],
        descend(CleanCtx(c), c.rule.not_[1], Some(c.path), Some("not"))).ok

\* the error of a `not` whose sub-rule succeeded
NotError(c) ==
    [loc |-> Append(c.loc, "not"),
     e |-> [path |-> c.path,
            err |-> Err("Negated sub-rule satisfied, but should have failed",
                        <<>>)]]

\* C12: in a rule without description, the sub-rule of `not` is evaluated on
\* the path given to the rule; the `not` is satisfied iff the sub-rule fails
\* on that path, and if the sub-rule succeeds the error at the location of
\* the rule + not is recorded; no error of the sub-rule is part of the
\* errors of the rule.
C12_Not ==
    \A i \in 1..Len(calls) :
        LET c == calls[i]
            sub == CallsAt(Append(c.loc, "not"))
        IN  (ReachedOps(c) /\ c.rule.not_ # None /\ c.rule.description = None) =>
                /\ sub # {}
                /\ \A j \in sub : j > i /\ calls[j].path = c.path
                /\ ("not" \notin Range(c.fails)) <=> ~NotRuleOk(c)
                /\ NotRuleOk(c) => ~c.ok /\ NotError(c) \in Range(c.errors)
                /\ OpErrors(c, "not") \subseteq {NotError(c)}


\* the errors of c under the key of its branch `key`
BranchMerged(c, key, b) ==
    OpErrors(c, key) =
        (IF c.rule.details /\ ~calls[b].ok THEN Range(calls[b].errors) ELSE {})

\* the branch of c selected by the outcome of `if`: sel is the sub-rule
\* under `key` (then or else), other is the key of the branch not selected;
\* j is the invocation of the rule `if`
SelectedBranch(c, j, sel, key, other) ==
    /\ CallsAt(Append(c.loc, other)) = {}
    /\ other \notin Range(c.fails)
    /\ OpErrors(c, other) = {}
    /\ (CallsAt(Append(c.loc, key)) # {}) <=> (sel # None)
    /\ sel = None => key \notin Range(c.fails) /\ OpErrors(c, key) = {}
    /\ \A b \in CallsAt(Append(c.loc, key)) :
        /\ b > j
        /\ calls[b].path = c.path
        /\ calls[b].rule = sel[1]
        /\ (key \in Range(c.fails)) <=> ~calls[b].ok
        /\ ~calls[b].ok => ~c.ok
        /\ BranchMerged(c, key, b)

\* C13: the rule `if` is evaluated on the path given to the rule and none
\* of its errors is kept; if it succeeds `then`, otherwise `else`, is
\* evaluated on the same (not rewritten) path when present; the rule fails
\* at this stage iff the selected branch is present and fails, and the errors
\* of that branch are merged into the errors of the rule iff details is true.
C13_IfThenElse ==
    /\ \A k \in 1..Len(errors) :
        \A e \in Range(errors[k].e) : "if" \notin Range(e.loc)
    /\ \A i \in 1..Len(calls) :
        LET c == calls[i]
        IN  (ReachedOps(c) /\ c.rule.if_ # None) =>
                /\ Cardinality(CallsAt(Append(c.loc, "if"))) = 1
                /\ OpErrors(c, "if") = {}
                /\ \A j \in CallsAt(Append(c.loc, "if")) :
                    /\ j > i
                    /\ calls[j].path = c.path
                    /\ calls[j].rule = c.rule.if_[1]
                    /\ IF calls[j].ok
                         THEN SelectedBranch(c, j, c.rule.then, "then", "else")
                         ELSE SelectedBranch(c, j, c.rule.else_, "else", "then")

\* a rule that rewrites its path, whose `if` succeeds and whose `then` fails
\* on the path given to the rule, with the errors of `then` merged in
C13_Witness ==
    \E i \in 1..Len(calls) :
        LET c == calls[i]
        IN  /\ ReachedOps(c)
            /\ c.rule.if_ # None /\ c.rule.then # None /\ c.rule.else_ # None
            /\ c.rule.rewrite # None
            /\ c.nextPath # c.path
            /\ c.rule.details
            /\ "then" \in Range(c.fails)
            /\ OpErrors(c, "then") # {}
            /\ CallsAt(Append(c.loc, "else")) = {}


\* the invocations enclosing the invocation j, and the innermost of them
Enclosing(j) ==
    {i \in 1..(j - 1) : /\ IsPrefix(calls[i].loc, calls[j].loc)
                        /\ calls[i].loc # calls[j].loc}
Parent(j) == CHOOSE i \in Enclosing(j) : \A k \in Enclosing(j) : k <= i

\* C14: a sub-rule that sets matchStart (matchStop) to 0 is evaluated with
\* the index 0 in its context, whatever the enclosing rule had set, and so
\* on the slice of the path that starts at the first segment (ends with the
\* last one); an index that the sub-rule does not set is the one of the
\* enclosing rule.
C14_ZeroOverride ==
    \A j \in 1..Len(calls) :
        LET c == calls[j]
        IN  (~c.rule.isBool /\ Enclosing(j) # {}) =>
                /\ c.rule.matchStart = Some(0) => c.ms = 0
                /\ c.rule.matchStop = Some(0) => c.me = 0
                /\ c.rule.matchStart = None => c.ms = calls[Parent(j)].ms
                /\ c.rule.matchStop = None => c.me = calls[Parent(j)].me
                /\ c.slice = into(c.path, Some(c.ms), Some(c.me)).sliceStr


(***************************************************************************)
(* The MetaConvention program (core.py): an object is constructed, its     *)
(* fields are assigned, and meta_for and is_meta are called on it.  obj is *)
(* the object the program holds, ret the outcome of the last call.         *)
(***************************************************************************)

\* MetaConvention.check_valid: TRUE if the root validator accepts the values
check_valid(values) == values.filePrefix # <<>> \/ values.fileSuffix # <<>>

\* the outcome of a call: what was called, whether it raised, and the path
\* and the boolean it took or returned
Outcome(op, raised, path, flag) ==
    [op |-> op, raised |-> raised, path |-> path, flag |-> flag]

\* MetaConvention(pathPrefix=pp, pathSuffix=ps, filePrefix=fp, fileSuffix=fs)
MetaConventionNew(pp, ps, fp, fs) ==
    [pathPrefix |-> pp, pathSuffix |-> ps, filePrefix |-> fp, fileSuffix |-> fs]

\* MetaConvention.from_tuple
from_tuple(pp, ps, fp, fs) == MetaConventionNew(pp, ps, fp, fs)

\* the values of the four fields: empty, one segment, two segments
FieldValues == {<<>>, <<"m">>, <<"q", "/", "m">>}

FieldNames == {"pathPrefix", "pathSuffix", "filePrefix", "fileSuffix"}

\* the normalized paths the convention is applied to
MetaPaths == {Join(l) : l \in UNION {[1..k -> SegNames] : k \in 0..(MaxSegs - 1)}}

\* conv = MetaConvention(...): a rejected construction leaves the program
\* with the object it had
MetaConstruct ==
    /\ mode = "conv"
    /\ \E pp \in FieldValues, ps \in FieldValues, fp \in FieldValues,
          fs \in FieldValues :
        IF check_valid(MetaConventionNew(pp, ps, fp, fs))
            THEN /\ obj' = MetaConventionNew(pp, ps, fp, fs)
                 /\ ret' = Outcome("MetaConvention", FALSE, <<>>, FALSE)
            ELSE /\ obj' = obj
                 /\ ret' = Outcome("MetaConvention", TRUE, <<>>, FALSE)
    /\ UNCHANGED <<mode, pc, schema, conv, tree, handlers, paths, idx, errors,
                   calls, hcalls, psIn, psl, psOut>>

\* conv = MetaConvention.from_tuple(...)
MetaFromTuple ==
    /\ mode = "conv"
    /\ \E pp \in FieldValues, ps \in FieldValues, fp \in FieldValues,
          fs \in FieldValues :
        IF check_valid(from_tuple(pp, ps, fp, fs))
            THEN /\ obj' = from_tuple(pp, ps, fp, fs)
                 /\ ret' = Outcome("from_tuple", FALSE, <<>>, FALSE)
            ELSE /\ obj' = obj
                 /\ ret' = Outcome("from_tuple", TRUE, <<>>, FALSE)
    /\ UNCHANGED <<mode, pc, schema, conv, tree, handlers, paths, idx, errors,
                   calls, hcalls, psIn, psl, psOut>>

\* conv.<field> = v: the model class does not validate on assignment
MetaAssign ==
    /\ mode = "conv"
    /\ \E f \in FieldNames, v \in FieldValues :
        obj' = [obj EXCEPT ![f] = v]
    /\ ret' = Outcome("setattr", FALSE, <<>>, FALSE)
    /\ UNCHANGED <<mode, pc, schema, conv, tree, handlers, paths, idx, errors,
                   calls, hcalls, psIn, psl, psOut>>

\* conv.meta_for(p, is_dir)
MetaFor ==
    /\ mode = "conv"
    /\ \E p \in MetaPaths, d \in BOOLEAN :
        ret' = Outcome("meta_for", FALSE, meta_for(obj, p, d), d)
    /\ UNCHANGED <<mode, pc, schema, conv, tree, handlers, paths, idx, errors,
                   calls, hcalls, psIn, psl, psOut, obj>>

\* conv.is_meta(q) for the path q that meta_for returned
MetaIsMeta ==
    /\ mode = "conv"
    /\ ret.op = "meta_for"
    /\ ret' = Outcome("is_meta", FALSE, ret.path, is_meta(obj, ret.path))
    /\ UNCHANGED <<mode, pc, schema, conv, tree, handlers, paths, idx, errors,
                   calls, hcalls, psIn, psl, psOut, obj>>

\* conv = MetaConvention()
InitConv ==
    /\ mode = "conv"
    /\ pc = "start"
    /\ obj = DefaultConv
    /\ ret = Outcome("MetaConvention", FALSE, <<>>, FALSE)
    /\ psIn = [path |-> <<>>, start |-> None, stop |-> None]
    /\ psl = into(<<>>, None, None)
    /\ psOut = <<>>
    /\ schema = R0
    /\ tree = MkTree([p \in {} |-> "notjson"], {})
    /\ conv = DefaultConv
    /\ handlers = NoHandlers
    /\ paths = <<>>
    /\ idx = 0
    /\ errors = <<>>
    /\ calls = <<>>
    /\ hcalls = <<>>

NextConv ==
    MetaConstruct \/ MetaFromTuple \/ MetaAssign \/ MetaFor \/ MetaIsMeta

SpecConv == InitConv /\ [][NextConv]_vars

\* C15: for every convention with filePrefix or fileSuffix non-empty, every
\* path p and both values of is_dir, is_meta(meta_for(p, is_dir)) is true.
C15_MetaForIsMeta ==
    (mode = "conv" /\ ret.op = "is_meta" /\ check_valid(obj)) => ret.flag


\* C16: whatever constructions and assignments were made, the convention the
\* program holds has filePrefix or fileSuffix non-empty.
C16_FileAffixSet ==
    mode = "conv" => (obj.filePrefix # <<>> \/ obj.fileSuffix # <<>>)


\* the position in a list of n segments that the slice bound k denotes:
\* a negative bound counts from the end
BoundPos(k, n) == IF k < 0 THEN n + k ELSE k

\* the 0-based positions of the segments of path that (start, stop) selects,
\* where no stop and stop = 0 both mean through the end
Selected(path, start, stop) ==
    LET n == Len(Split(path))
        lo == IF start = None THEN 0 ELSE BoundPos(start[1], n)
        hi == IF stop = None \/ stop = Some(0) THEN n ELSE BoundPos(stop[1], n)
    IN  {i \in 0..(n - 1) : lo <= i /\ i < hi}

\* the selected segments, in the order of the path
SelectedSegs(path, S) ==
    [j \in 1..Cardinality(S) |->
        Split(path)[j + Cardinality({i \in 0..(Len(Split(path)) - 1) :
                                        \A k \in S : i < k})]]

\* C17: the sliceStr of into(p, start, stop) is the join of the segments of
\* p that the Python slice [start:stop] selects, stop = 0 standing for the
\* end; (0, 0) and (None, None) give the full path, (1, 0) all but the first
\* segment.
C17_SliceStr ==
    (mode = "slice" /\ pc \in {"sliced", "done"}) =>
        /\ psl.sliceStr =
            Join(SelectedSegs(psIn.path,
                              Selected(psIn.path, psIn.start, psIn.stop)))
        /\ (psIn.start \in {None, Some(0)} /\ psIn.stop \in {None, Some(0)}) =>
                psl.sliceStr = psIn.path
        /\ (psIn.start = Some(1) /\ psIn.stop = Some(0)) =>
                psl.sliceStr = Join(Tail(Split(psIn.path)))

\* into(p, 1, 0) on a path of three segments gives the last two
C17_Witness ==
    /\ mode = "slice"
    /\ pc = "sliced"
    /\ psIn.start = Some(1)
    /\ psIn.stop = Some(0)
    /\ Len(Split(psIn.path)) = 3
    /\ psl.sliceStr = Join(Tail(Split(psIn.path)))
    /\ psl.sliceStr # <<>>


(***************************************************************************)
(* The ZipDir program (adapters.py): an adapter is made for an archive     *)
(* with a set of member names, get_paths is called, and is_file and is_dir *)
(* are called for a path it returned.                                      *)
(***************************************************************************)

\* str.rstrip("/")
RECURSIVE rstrip(_)
rstrip(s) ==
    IF Len(s) > 0 /\ s[Len(s)] = "/" THEN rstrip(SubSeq(s, 1, Len(s) - 1))
    ELSE s

\* sorted(...) of a set of strings
RECURSIVE SortedStrs(_)
SortedStrs(S) ==
    IF S = {} THEN <<>>
    ELSE LET least == CHOOSE s \in S : \A t \in S \ {s} : StrLess(s, t)
         IN  <<least>> \o SortedStrs(S \ {least})

\* ZipDir.__init__: the set of the names of the archive, and "/"
ZipDirNew(namelist) == [names |-> namelist \cup {<<"/">>}]

\* ZipDir.get_paths
ZipDir_get_paths(self) ==
    [i \in 1..Cardinality(self.names) |-> rstrip(SortedStrs(self.names)[i])]

\* ZipDir.is_dir
ZipDir_is_dir(self, dir) == (rstrip(dir) \o <<"/">>) \in self.names

\* ZipDir.is_file
ZipDir_is_file(self, dir) == rstrip(dir) \in self.names

\* the member names of the archives: files and directory entries
ZipNames ==
    {<<"a">>, <<"a", "/">>, <<"a", "/", "b">>, <<"a", "-", "b">>,
     <<".", "a">>, <<"b", "/">>}

\* the outcome of the calls on the adapter: the list get_paths returned,
\* and the path that is_file and is_dir were asked about with their answers
ZipOutcome(op, ps, p, f, d) ==
    [op |-> op, paths |-> ps, path |-> p, isFile |-> f, isDir |-> d]

\* paths = list(inst.get_paths())
ZipGetPaths ==
    /\ mode = "zip"
    /\ pc = "start"
    /\ ret' = ZipOutcome("get_paths", ZipDir_get_paths(obj), <<>>, FALSE, FALSE)
    /\ pc' = "listed"
    /\ UNCHANGED <<mode, schema, conv, tree, handlers, paths, idx, errors,
                   calls, hcalls, psIn, psl, psOut, obj>>

\* inst.is_file(p), inst.is_dir(p) for a path p of the list
ZipStat ==
    /\ mode = "zip"
    /\ pc \in {"listed", "stat"}
    /\ \E i \in 1..Len(ret.paths) :
        ret' = ZipOutcome("stat", ret.paths, ret.paths[i],
                          ZipDir_is_file(obj, ret.paths[i]),
                          ZipDir_is_dir(obj, ret.paths[i]))
    /\ pc' = "stat"
    /\ UNCHANGED <<mode, schema, conv, tree, handlers, paths, idx, errors,
                   calls, hcalls, psIn, psl, psOut, obj>>

\* inst = ZipDir(archive), for every set of member names
InitZip ==
    /\ mode = "zip"
    /\ pc = "start"
    /\ \E namelist \in SUBSET ZipNames : obj = ZipDirNew(namelist)
    /\ ret = ZipOutcome("init", <<>>, <<>>, FALSE, FALSE)
    /\ psIn = [path |-> <<>>, start |-> None, stop |-> None]
    /\ psl = into(<<>>, None, None)
    /\ psOut = <<>>
    /\ schema = R0
    /\ tree = MkTree([p \in {} |-> "notjson"], {})
    /\ conv = DefaultConv
    /\ handlers = NoHandlers
    /\ paths = <<>>
    /\ idx = 0
    /\ errors = <<>>
    /\ calls = <<>>
    /\ hcalls = <<>>

NextZip == ZipGetPaths \/ ZipStat

SpecZip == InitZip /\ [][NextZip]_vars

\* C18: for every path that get_paths of a ZipDir returned, exactly one of
\* is_file and is_dir holds, and the root is a directory and not a file.
C18_FileXorDir ==
    (mode = "zip" /\ pc = "stat") =>
        /\ ret.isFile # ret.isDir
        /\ ret.path = <<>> => ret.isDir /\ ~ret.isFile

\* the member names of the archive without the entry "/" of the adapter
Members == obj.names \ {<<"/">>}

\* C19: get_paths of a ZipDir yields the root once, as the first element,
\* and then every member name with its trailing "/" trimmed, in
\* lexicographic order of the yielded paths.
C19_ZipPaths ==
    (mode = "zip" /\ pc \in {"listed", "stat"}) =>
        /\ Len(ret.paths) = 1 + Cardinality(Members)
        /\ ret.paths[1] = <<>>
        /\ \A i \in 2..Len(ret.paths) : ret.paths[i] # <<>>
        /\ {ret.paths[i] : i \in 2..Len(ret.paths)} = {rstrip(n) : n \in Members}
        /\ \A i, j \in 2..Len(ret.paths) :
            i < j => (ret.paths[i] = ret.paths[j]
                      \/ StrLess(ret.paths[i], ret.paths[j]))


(***************************************************************************)
(* The H5Dir program (adapters.py): an adapter is made for an HDF5 file    *)
(* and get_paths is called.  A file is [attrs, nodes]: the names of the    *)
(* attributes of the root, and the groups and datasets in the order in     *)
(* which visit() reaches them, each with its name relative to the root,    *)
(* its kind and the names of its attributes.                               *)
(***************************************************************************)

\* H5Dir._ATTR_SEP
ATTR_SEP == "@"

\* name.find(self._ATTR_SEP) >= 0
HasSep(name) == \E i \in 1..Len(name) : name[i] = ATTR_SEP

\* [f"{name}{self._ATTR_SEP}{atr}" for atr in attrs.keys()]
AttrPaths(name, attrs) ==
    [i \in 1..Len(attrs) |-> name \o <<ATTR_SEP>> \o attrs[i]]

\* the function collect of get_paths, applied by visit() to the nodes from
\* the i-th on; acc is [raised, paths]
RECURSIVE Collect(_, _, _)
Collect(nodes, i, acc) ==
    IF i > Len(nodes) THEN acc
    ELSE IF HasSep(nodes[i].name) THEN [raised |-> TRUE, paths |-> <<>>]
    ELSE Collect(nodes, i + 1,
            [acc EXCEPT !.paths = @ \o <<nodes[i].name>>
                                    \o AttrPaths(nodes[i].name, nodes[i].attrs)])

\* H5Dir.get_paths
H5Dir_get_paths(file) ==
    Collect(file.nodes, 1,
            [raised |-> FALSE, paths |-> <<<<>>>> \o AttrPaths(<<>>, file.attrs)])

\* the attribute names of a node: t and u@v
AttrNames == <<<<"t">>, <<"u", "@", "v">>>>

AttrSeqs == {<<>>, <<AttrNames[1]>>, <<AttrNames[2]>>, AttrNames}

H5Node(name, kind, attrs) == [name |-> name, kind |-> kind, attrs |-> attrs]

\* the files: an optional group g with an optional dataset g/d, an optional
\* dataset x@, and attributes on the root, on g and on g/d
H5Nodes ==
    {<<>>}
    \cup {<<H5Node(<<"g">>, "group", a)>> : a \in AttrSeqs}
    \cup {<<H5Node(<<"g">>, "group", a), H5Node(<<"g", "/", "d">>, "dataset", b)>> :
            a \in AttrSeqs, b \in AttrSeqs}

H5Files ==
    {[attrs |-> ra, nodes |-> ns \o bad] :
        ra \in AttrSeqs, ns \in H5Nodes,
        bad \in {<<>>, <<H5Node(<<"x", "@">>, "dataset", <<>>)>>}}

\* paths = inst.get_paths()
H5GetPaths ==
    /\ mode = "h5"
    /\ pc = "start"
    /\ ret' = H5Dir_get_paths(obj)
    /\ pc' = "listed"
    /\ UNCHANGED <<mode, schema, conv, tree, handlers, paths, idx, errors,
                   calls, hcalls, psIn, psl, psOut, obj>>

\* inst = H5Dir(file), for every file
InitH5 ==
    /\ mode = "h5"
    /\ pc = "start"
    /\ obj \in H5Files
    /\ ret = [raised |-> FALSE, paths |-> <<>>]
    /\ psIn = [path |-> <<>>, start |-> None, stop |-> None]
    /\ psl = into(<<>>, None, None)
    /\ psOut = <<>>
    /\ schema = R0
    /\ tree = MkTree([p \in {} |-> "notjson"], {})
    /\ conv = DefaultConv
    /\ handlers = NoHandlers
    /\ paths = <<>>
    /\ idx = 0
    /\ errors = <<>>
    /\ calls = <<>>
    /\ hcalls = <<>>

NextH5 == H5GetPaths

SpecH5 == InitH5 /\ [][NextH5]_vars

\* the names of the groups, datasets and attributes of the file
H5NameSet(file) ==
    Range(file.attrs)
    \cup {file.nodes[i].name : i \in 1..Len(file.nodes)}
    \cup UNION {Range(file.nodes[i].attrs) : i \in 1..Len(file.nodes)}

\* the number of separators in a path
SepCount(p) == Cardinality({i \in 1..Len(p) : p[i] = ATTR_SEP})

\* C20: get_paths of an H5Dir raises whenever a group, dataset or attribute
\* name of the file contains the separator, and so every path it returns
\* contains the separator at most once.
C20_SepRejected ==
    (mode = "h5" /\ pc = "listed") =>
        /\ (\E n \in H5NameSet(obj) : HasSep(n)) => ret.raised
        /\ ~ret.raised => \A p \in Range(ret.paths) : SepCount(p) <= 1


(***************************************************************************)
(* A validation run on a zip or HDF5 source given as a Path (validate.py,  *)
(* adapters.py): validate() lets get_adapter_for open the file, lists the  *)
(* paths, validates them one by one and returns, or leaves with an         *)
(* exception.  obj is the source with the state of its handle; the code    *)
(* has no close call, the handle is closed when the garbage collector      *)
(* finalizes the adapter object.                                           *)
(***************************************************************************)

\* the largest number of paths of a source
MaxPaths == 3

\* the sources: the kind of the file, the number of its paths, whether
\* get_paths raises on it (an HDF5 node name with the separator)
RunSources ==
    {[kind |-> k, npaths |-> n, badName |-> b, handle |-> "none"] :
        k \in {"zip", "h5", "other"}, n \in 0..MaxPaths, b \in BOOLEAN}

\* root_path = get_adapter_for(root_path): ZipDir.for_path / H5Dir.for_path
\* open the file, any other file raises ValueError
RunOpen ==
    /\ mode = "run"
    /\ pc = "start"
    /\ IF obj.kind \in {"zip", "h5"}
         THEN obj' = [obj EXCEPT !.handle = "open"] /\ pc' = "opened"
         ELSE obj' = obj /\ pc' = "raised"
    /\ UNCHANGED <<mode, schema, conv, tree, handlers, paths, idx, errors,
                   calls, hcalls, psIn, psl, psOut, ret>>

\* paths = [p for p in root_path.get_paths() if ...]
RunGetPaths ==
    /\ mode = "run"
    /\ pc = "opened"
    /\ pc' = IF obj.kind = "h5" /\ obj.badName THEN "raised" ELSE "loop"
    /\ idx' = 0
    /\ UNCHANGED <<mode, schema, conv, tree, handlers, paths, errors,
                   calls, hcalls, psIn, psl, psOut, obj, ret>>

\* one iteration of the loop: validate_path returns, or raises (a schema or
\* plugin error)
RunValidatePath ==
    /\ mode = "run"
    /\ pc = "loop"
    /\ idx < obj.npaths
    /\ \/ idx' = idx + 1 /\ pc' = "loop"
       \/ idx' = idx /\ pc' = "raised"
    /\ UNCHANGED <<mode, schema, conv, tree, handlers, paths, errors,
                   calls, hcalls, psIn, psl, psOut, obj, ret>>

\* return errors
RunReturn ==
    /\ mode = "run"
    /\ pc = "loop"
    /\ idx = obj.npaths
    /\ pc' = "returned"
    /\ UNCHANGED <<mode, schema, conv, tree, handlers, paths, idx, errors,
                   calls, hcalls, psIn, psl, psOut, obj, ret>>

\* the garbage collector finalizes the adapter, which closes the handle;
\* it can do so once validate() is left
RunCollect ==
    /\ mode = "run"
    /\ pc \in {"returned", "raised"}
    /\ obj.handle = "open"
    /\ obj' = [obj EXCEPT !.handle = "closed"]
    /\ UNCHANGED <<mode, pc, schema, conv, tree, handlers, paths, idx, errors,
                   calls, hcalls, psIn, psl, psOut, ret>>

InitRun ==
    /\ mode = "run"
    /\ pc = "start"
    /\ obj \in RunSources
    /\ ret = None
    /\ psIn = [path |-> <<>>, start |-> None, stop |-> None]
    /\ psl = into(<<>>, None, None)
    /\ psOut = <<>>
    /\ schema = R0
    /\ tree = MkTree([p \in {} |-> "notjson"], {})
    /\ conv = DefaultConv
    /\ handlers = NoHandlers
    /\ paths = <<>>
    /\ idx = 0
    /\ errors = <<>>
    /\ calls = <<>>
    /\ hcalls = <<>>

\* the steps of validate()
RunProgram == RunOpen \/ RunGetPaths \/ RunValidatePath \/ RunReturn

NextRun == RunProgram \/ RunCollect

\* the steps of validate() are taken as long as one is possible; nothing in
\* the code makes the collector run
SpecRun == InitRun /\ [][NextRun]_vars /\ WF_vars(RunProgram)

\* C21: the handle that a validation run opened is eventually closed.
C21_HandleClosed ==
    (mode = "run" /\ obj.handle = "open") ~> (obj.handle = "closed")


\* the primitive keywords of a rule
PrimKeys == {"type", "valid", "validMeta"}

\* the invocation c went through the stage of the primitive constraints
ReachedPrim(c) ==
    ~c.rule.isBool /\ ~c.raised /\ c.stage \in {"prim", "comb", "next", "end"}

\* the path is a file or a directory of the adapter
Exists(path) == is_file(tree, path) \/ is_dir(tree, path)

\* the file that the keyword key of a rule is validated on
PrimTarget(path, key) ==
    IF key = "validMeta" THEN meta_for(conv, path, is_dir(tree, path)) ELSE path

\* c has an error of the keyword key with the message err, recorded for the
\* path target when a target is given
HasKeyError(c, key, err, target) ==
    \E e \in Range(c.errors) :
        /\ e.loc = Append(c.loc, key)
        /\ e.e.err = err
        /\ target # <<>> => e.e.path = target

\* valid / validMeta of c on a path that does not exist, or whose target
\* cannot be opened
PrimKeyChecked(c, key) ==
    IF c.rule[key] = None THEN key \notin Range(c.fails)
    ELSE IF ~Exists(c.path)
        THEN /\ key \in Range(c.fails)
             /\ HasKeyError(c, key, Err("Path does not exist", c.path), <<>>)
    ELSE open_file(tree, PrimTarget(c.path, key)).res = None =>
            /\ key \in Range(c.fails)
            /\ HasKeyError(c, key,
                           Err("File could not be loaded", PrimTarget(c.path, key)),
                           PrimTarget(c.path, key))

\* the type constraint of c
PrimTypeChecked(c) ==
    LET bad == /\ c.rule.type # None
               /\ ~is_satisfied(c.rule.type[1], is_file(tree, c.path),
                                is_dir(tree, c.path))
    IN  /\ ("type" \in Range(c.fails)) <=> bad
        /\ bad => HasKeyError(c, "type", Err(TypeMsg(c.rule.type[1]), <<>>), <<>>)

\* C22: in a rule without description, type, valid and validMeta are each
\* checked whatever the outcome of the others, and the rule stops before the
\* combinators iff one of them failed; valid is checked on the path and
\* validMeta on meta_for(path, is_dir); on a path that is neither file nor
\* directory the keyword records that the path does not exist, and a target
\* that cannot be opened is recorded as not loaded, at the target path.
C22_Primitive ==
    \A i \in 1..Len(calls) :
        LET c == calls[i]
        IN  (ReachedPrim(c) /\ c.rule.description = None) =>
                /\ PrimTypeChecked(c)
                /\ PrimKeyChecked(c, "valid")
                /\ PrimKeyChecked(c, "validMeta")
                /\ (c.stage = "prim") <=> (Range(c.fails) \cap PrimKeys # {})


\* the sub-rules of the list op of the invocation calls[i] that were
\* evaluated are the first m of the list, each once, after calls[i] and in
\* the order of the list
ListOrder(i, op, m) ==
    /\ Evaluated(calls[i], op) = 1..m
    /\ \A k \in 1..m :
        /\ i < SubIdx(calls[i], op, k)
        /\ Cardinality(CallsAt(SubLoc(calls[i], op, k))) = 1
    /\ \A k1, k2 \in 1..m :
        k1 < k2 => SubIdx(calls[i], op, k1) < SubIdx(calls[i], op, k2)

\* the number of sub-rules of anyOf that are evaluated: up to the first
\* that succeeded, all if none did
AnyOfStop(c) ==
    IF Succeeded(c, "anyOf") = {} THEN Len(c.rule.anyOf)
    ELSE CHOOSE k \in Succeeded(c, "anyOf") :
            \A k2 \in Succeeded(c, "anyOf") : k <= k2

\* C23 (as stated): the sub-rules of a combinator list are evaluated in
\* schema order, and no sub-rule of an allOf is evaluated after the first
\* one that failed.
C23_AllOfStops ==
    \A i \in 1..Len(calls) :
        LET c == calls[i]
        IN  ReachedOps(c) =>
                /\ \E m \in 0..Len(c.rule.allOf) : ListOrder(i, "allOf", m)
                /\ \A k \in Evaluated(c, "allOf") :
                    \A k1 \in 1..(k - 1) : k1 \in Succeeded(c, "allOf")

\* C23 (amended): the sub-rules of a combinator list are evaluated in
\* schema order; every sub-rule of an allOf and of a oneOf is evaluated,
\* also after one that failed, and only the evaluation of an anyOf stops,
\* after its first sub-rule that succeeded.
C23_ListOrder ==
    \A i \in 1..Len(calls) :
        LET c == calls[i]
        IN  ReachedOps(c) =>
                /\ ListOrder(i, "allOf", Len(c.rule.allOf))
                /\ ListOrder(i, "oneOf", Len(c.rule.oneOf))
                /\ ListOrder(i, "anyOf", AnyOfStop(c))

\* an allOf whose first sub-rule failed and whose second one was evaluated
C23_Witness ==
    \E i \in 1..Len(calls) :
        /\ ReachedOps(calls[i])
        /\ Len(calls[i].rule.allOf) >= 2
        /\ 1 \in Evaluated(calls[i], "allOf") \ Succeeded(calls[i], "allOf")
        /\ 2 \in Evaluated(calls[i], "allOf")


\* the keywords of the complex constraints
CombKeys == {"if", "then", "else", "allOf", "anyOf", "oneOf", "not"}

\* the keyword of the invocation c through which the location loc is
\* reached (the step of loc that follows the location of c)
KeywordOf(c, loc) == loc[Len(c.loc) + 1]

\* the errors and the invocations below a complex keyword of c
BelowComb(c, loc) ==
    /\ Len(loc) > Len(c.loc)
    /\ IsPrefix(c.loc, loc)
    /\ KeywordOf(c, loc) \in CombKeys

\* in the invocation calls[i] the complex keywords are evaluated, fail and
\* insert their errors in the order given by rank
KeywordOrder(i, rank) ==
    LET c == calls[i]
    IN  /\ \A p, q \in 1..Len(c.errors) :
            (p < q /\ BelowComb(c, c.errors[p].loc) /\ BelowComb(c, c.errors[q].loc))
                => rank[KeywordOf(c, c.errors[p].loc)]
                      <= rank[KeywordOf(c, c.errors[q].loc)]
        /\ \A p, q \in 1..Len(c.fails) :
            (p < q /\ c.fails[p] \in CombKeys /\ c.fails[q] \in CombKeys)
                => rank[c.fails[p]] <= rank[c.fails[q]]
        /\ \A p, q \in (i + 1)..Len(calls) :
            (p < q /\ BelowComb(c, calls[p].loc) /\ BelowComb(c, calls[q].loc))
                => rank[KeywordOf(c, calls[p].loc)]
                      <= rank[KeywordOf(c, calls[q].loc)]

\* C24 (as stated): the complex keywords of a node are evaluated, and their
\* errors inserted into the error map of the node, in the order
\* if/then/else, allOf, oneOf, anyOf, not.
C24_OneOfBeforeAnyOf ==
    \A i \in 1..Len(calls) :
        ReachedOps(calls[i]) =>
            KeywordOrder(i, [k \in CombKeys |->
                CASE k = "if" -> 1 [] k \in {"then", "else"} -> 2
                  [] k = "allOf" -> 3 [] k = "oneOf" -> 4
                  [] k = "anyOf" -> 5 [] k = "not" -> 6])

\* C24 (amended): the complex keywords of a node are evaluated, and their
\* errors inserted into the error map of the node, in the order
\* if/then/else, allOf, anyOf, oneOf, not.
C24_KeywordOrder ==
    \A i \in 1..Len(calls) :
        ReachedOps(calls[i]) =>
            KeywordOrder(i, [k \in CombKeys |->
                CASE k = "if" -> 1 [] k \in {"then", "else"} -> 2
                  [] k = "allOf" -> 3 [] k = "anyOf" -> 4
                  [] k = "oneOf" -> 5 [] k = "not" -> 6])

\* a node whose anyOf and oneOf both failed, with the errors of both in
\* the error map of the node
C24_Witness ==
    \E i \in 1..Len(calls) :
        /\ ReachedOps(calls[i])
        /\ \E p, q \in 1..Len(calls[i].errors) :
            /\ calls[i].errors[p].loc = Append(calls[i].loc, "anyOf")
            /\ calls[i].errors[q].loc = Append(calls[i].loc, "oneOf")


\* the combinator key of the invocation c fails when its sub-rules are
\* evaluated on the path of c with the match context that c inherited and
\* with nothing else
FailsAlone(c, key) ==
    CASE key = "allOf" -> Satisfiable(c, "allOf") # 1..Len(c.rule.allOf)
      [] key = "anyOf" -> Len(c.rule.anyOf) > 0 /\ Satisfiable(c, "anyOf") = {}
      [] key = "oneOf" -> Len(c.rule.oneOf) > 0
                            /\ Cardinality(Satisfiable(c, "oneOf")) # 1
      [] key = "not" -> c.rule.not_ # None /\ NotRuleOk(c)

\* the error that the combinator key records at the invocation c
HasCombError(c, key) == \E e \in Range(c.errors) : e.loc = Append(c.loc, key)

\* C25: in a rule without description, each of allOf, anyOf, oneOf and not
\* fails, and records its error, iff its own sub-rules make it fail on the
\* path with the inherited match context, whether or not then/else or an
\* earlier combinator of the same node has failed.
C25_Independent ==
    \A i \in 1..Len(calls) :
        LET c == calls[i]
        IN  (ReachedOps(c) /\ c.rule.description = None) =>
                \A key \in {"allOf", "anyOf", "oneOf", "not"} :
                    /\ (key \in Range(c.fails)) <=> FailsAlone(c, key)
                    /\ HasCombError(c, key) <=> FailsAlone(c, key)


\* the keywords that are constraints of the rule itself
OwnKeys ==
    {"match", "rewrite", "type", "valid", "validMeta", "allOf", "anyOf",
     "oneOf", "not"}

\* the description of the invocation c, expanded against the match of its
\* slice with the pattern in force
ExpandedDescription(c) ==
    LET m == FullMatch(IF c.pat # None THEN c.pat[1] ELSE DefPat, c.slice)
    IN  IF m = None THEN c.rule.description[1]
        ELSE Expand(m[1], c.rule.description[1]).str

\* the positions of the errors of c that are recorded at the location loc
ErrorsAt(c, loc) == {p \in 1..Len(c.errors) : c.errors[p].loc = loc}

\* C26: when a constraint of a rule with a description fails, no message of
\* the failed keyword is recorded; the expanded description is recorded
\* once at the location of the rule, also for a failed match or rewrite,
\* and nothing is recorded there if the description is empty; the rule
\* fails.
C26_Description ==
    \A i \in 1..Len(calls) :
        LET c == calls[i]
        IN  (/\ ~c.rule.isBool /\ ~c.raised
             /\ c.rule.description # None
             /\ Range(c.fails) \cap OwnKeys # {}) =>
                /\ ~c.ok
                /\ \A key \in OwnKeys : ErrorsAt(c, Append(c.loc, key)) = {}
                /\ IF c.rule.description = Some(<<>>)
                     THEN ErrorsAt(c, c.loc) = {}
                     ELSE /\ Cardinality(ErrorsAt(c, c.loc)) = 1
                          /\ \A p \in ErrorsAt(c, c.loc) :
                                c.errors[p].e.err =
                                    Err("description", ExpandedDescription(c))


\* the context with which the invocation c was entered
EntryCtx(c) == [CleanCtx(c) EXCEPT !.failed = c.inFailed]

\* the errors of the sub-rule of c at the location loc, if it was evaluated
\* and failed
FailedSubErrors(loc) ==
    UNION {Range(calls[j].errors) : j \in {j \in CallsAt(loc) : ~calls[j].ok}}

\* a sub-rule of c whose failure made c fail: a failed then / else branch,
\* a failed sub-rule of an operator that failed, a failed next
CausingSubLocs(c) ==
    {Append(c.loc, b) : b \in Range(c.fails) \cap {"then", "else"}}
    \cup {SubLoc(c, op, k) :
            op \in Range(c.fails) \cap {"allOf", "anyOf", "oneOf"},
            k \in 1..MaxList}
    \cup (IF c.nextEval THEN {Append(c.loc, "next")} ELSE {})

\* C27: with details false, every error of a rule is recorded at the
\* location of the rule or at one of its keywords, none inside a sub-rule,
\* and the verdict is the one the rule has with details true; with details
\* true, the errors of the failed sub-rules that made the rule fail are
\* among the errors of the rule.
C27_Details ==
    \A i \in 1..Len(calls) :
        LET c == calls[i]
        IN  (~c.rule.isBool /\ ~c.raised) =>
                /\ ~c.rule.details =>
                    \A e \in Range(c.errors) :
                        /\ IsPrefix(c.loc, e.loc)
                        /\ Len(e.loc) <= Len(c.loc) + 1
                /\ c.ok = validate_path(c.path,
                                        [c.rule EXCEPT !.details = ~@],
                                        EntryCtx(c)).ok
                /\ c.rule.details =>
                    \A loc \in CausingSubLocs(c) :
                        FailedSubErrors(loc) \subseteq Range(c.errors)

\* a rule with details false one of whose operators failed on sub-rules
\* that recorded errors
C27_Witness ==
    \E i \in 1..Len(calls) :
        /\ ~calls[i].rule.isBool /\ ~calls[i].raised
        /\ ~calls[i].rule.details
        /\ \E loc \in CausingSubLocs(calls[i]) : FailedSubErrors(loc) # {}
        /\ calls[i].errors # <<>>


\* the steps of loc lead from the rule to one of its nodes: a sub-rule, a
\* list of sub-rules or the value of a keyword
RECURSIVE Resolves(_, _)
Resolves(rule, loc) ==
    IF loc = <<>> THEN TRUE
    ELSE IF rule.isBool THEN FALSE
    ELSE CASE loc[1] \in {"allOf", "anyOf", "oneOf"} ->
                /\ rule[loc[1]] # <<>>
                /\ Len(loc) > 1 =>
                    \E k \in 1..Len(rule[loc[1]]) :
                        /\ loc[2] = ToString(k - 1)
                        /\ Resolves(rule[loc[1]][k], Tail(Tail(loc)))
           [] loc[1] \in {"if", "then", "else", "not", "next"} ->
                LET sub == CASE loc[1] = "if" -> rule.if_
                             [] loc[1] = "then" -> rule.then
                             [] loc[1] = "else" -> rule.else_
                             [] loc[1] = "not" -> rule.not_
                             [] loc[1] = "next" -> rule.next
                IN  sub # None /\ Resolves(sub[1], Tail(loc))
           [] loc[1] \in {"type", "valid", "validMeta", "match", "rewrite"} ->
                Len(loc) = 1 /\ rule[loc[1]] # None
           [] OTHER -> FALSE

\* the location loc is the one of a sub-rule that was evaluated and that
\* records errors at its own location, or the one of a keyword that failed
\* in an evaluated sub-rule without description
Produced(loc) ==
    \E j \in 1..Len(calls) :
        \/ /\ calls[j].loc = loc
           /\ calls[j].rule.isBool \/ calls[j].rule.description # None
        \/ /\ ~calls[j].rule.isBool
           /\ \E key \in Range(calls[j].fails) \ {"then", "else"} :
                /\ loc = Append(calls[j].loc, key)
                /\ calls[j].rule.description = None

\* the rendered errors of the path in the result of validate
RenderedFor(path) ==
    UNION {Range(errors_to_json(errors)[p].e) :
            p \in {p \in 1..Len(errors) : errors[p].loc = path}}

\* C28: the key of every error recorded while a path is evaluated is the
\* sequence of keywords and list indices from the schema root to the
\* sub-rule that produced it, followed by the keyword that failed when the
\* rule has no description; it resolves to a node of the schema and is
\* rendered as the separator followed by the steps joined by separators:
\* the example schema yields for the root an error at
\* /anyOf/0/next/type that tells the expected type file.
C28_ErrorKeys ==
    /\ \A j \in 1..Len(calls) :
        \A e \in Range(calls[j].errors) :
            /\ IsPrefix(calls[j].loc, e.loc)
            /\ Resolves(schema, e.loc)
            /\ Produced(e.loc)
    /\ \A p \in 1..Len(errors) :
        \A q \in 1..Len(errors[p].e) :
            /\ Resolves(schema, errors[p].e[q].loc)
            /\ errors_to_json(errors)[p].e[q].loc =
                    <<"/">> \o JoinSteps(errors[p].e[q].loc)
    /\ (schema = ExampleRule /\ tree = EmptyTree /\ pc = "done") =>
            \E r \in RenderedFor(<<>>) :
                /\ r.loc = <<"/", "anyOf", "/", "0", "/", "next", "/", "type">>
                /\ r.e.err = Err(TypeMsg("FILE"), <<>>)

\* C29: while a path is evaluated, no key is assigned twice in the error
\* map of an invocation, neither by add_error nor by the merge of the
\* errors of a sub-rule.
C29_WriteOnce ==
    \A j \in 1..Len(calls) :
        \A p, q \in 1..Len(calls[j].written) :
            p < q => calls[j].written[p] # calls[j].written[q]

\* an invocation that recorded an error of its own and merged the errors
\* of two sub-rules
C29_Witness ==
    \E j \in 1..Len(calls) :
        /\ Len(calls[j].written) >= 3
        /\ \E p \in 1..Len(calls[j].written) :
            Len(calls[j].written[p]) = Len(calls[j].loc) + 1
        /\ \E p \in 1..Len(calls[j].written) :
            Len(calls[j].written[p]) > Len(calls[j].loc) + 1


\* the JSON Pointer of a location in a document: the empty string for the
\* root, the steps with a separator in front of each otherwise, the
\* characters ~ and / of a step being escaped
RECURSIVE EscapeStep(_)
EscapeStep(step) ==
    IF step = <<>> THEN <<>>
    ELSE (CASE step[1] = "~" -> <<"~", "0">>
            [] step[1] = "/" -> <<"~", "1">>
            [] OTHER -> <<step[1]>>) \o EscapeStep(Tail(step))
RECURSIVE JsonPointer(_)
JsonPointer(path) ==
    IF path = <<>> THEN <<>>
    ELSE <<"/">> \o EscapeStep(path[1]) \o JsonPointer(Tail(path))

\* the document that the keyword key of the invocation c validates
TargetDoc(c, key) ==
    decode_json(open_file(tree, PrimTarget(c.path, key)).res[1],
                PrimTarget(c.path, key)).res[1]

\* the keyword key of c validates a JSON document against a JSON Schema
ValidatesJson(c, key) ==
    /\ ReachedPrim(c) /\ c.rule.description = None
    /\ c.rule[key] # None /\ c.rule[key][1].kind = "schema"
    /\ Exists(c.path)
    /\ open_file(tree, PrimTarget(c.path, key)).res # None
    /\ decode_json(open_file(tree, PrimTarget(c.path, key)).res[1],
                   PrimTarget(c.path, key)).res # None

\* the error e lists, under the JSON Pointer of each location of verrs,
\* the messages of the violations at that location
GroupedByPointer(e, verrs) ==
    \A v \in Range(verrs) :
        \E g \in Range(e.e.err.json) :
            /\ g.ptr = JsonPointer(v.path)
            /\ Range(g.msgs) = {w.message : w \in {w \in Range(verrs) : w.path = v.path}}

\* C30: the violations of the JSON Schema of valid / validMeta are reported
\* in the error of the keyword, grouped under the JSON Pointer of their
\* location in the document: the empty string for a violation at the root
\* (a missing required property), each key with the list of the messages
\* for its location.
C30_JsonPointerKeys ==
    \A j \in 1..Len(calls) :
        \A key \in {"valid", "validMeta"} :
            (/\ ValidatesJson(calls[j], key)
             /\ iter_errors(TargetDoc(calls[j], key), calls[j].rule[key][1].name) # <<>>)
                => \E e \in Range(calls[j].errors) :
                    /\ e.loc = Append(calls[j].loc, key)
                    /\ GroupedByPointer(e,
                            iter_errors(TargetDoc(calls[j], key),
                                        calls[j].rule[key][1].name))

============================================================================
